---- MODULE Spec2Model ----
(***************************************************************************)
(* Rule export / import of the JIRA ShortCut extension                     *)
(* (jira/js/export-import.js): the schema validator, the size estimate,    *)
(* the import pipeline (size, parse, schema and quota gates, then the      *)
(* replace or merge commit) and the export, run against the storage        *)
(* collaborator (Config.get_all, Config.remove_all, RuleConfig.save).      *)
(***************************************************************************)
EXTENDS Naturals, Integers, Sequences, FiniteSets, TLC

(***************************************************************************)
(* Bounds of the model.                                                    *)
(***************************************************************************)
\* longest rules array of the generated documents
MaxRules == 2
\* most rules the store holds; a merge that would exceed it is not started
MaxStoreRules == 3
\* longest rules array of the documents given to the validator alone
MaxValidated == 3

(***************************************************************************)
(* Program constants.                                                      *)
(***************************************************************************)
QUOTA_LIMIT == 102400
MAX_FILE_SIZE == 10 * 1024 * 1024
MAX_NAME_LENGTH == 100

(***************************************************************************)
(* JSON values.  A parsed value is a record: t is its JavaScript type     *)
(* ("undef" for a key that is absent), s the text of a string, number or   *)
(* boolean, len the length of a string, and wf whether a string is well    *)
(* formed for the use its field has (it compiles as a regular expression   *)
(* in a pattern field, it parses as a date in exportedAt).  The strings    *)
(* hold no character that JSON escapes, so a string of length n            *)
(* serializes to n + 2 characters.                                         *)
(***************************************************************************)
Undef == [t |-> "undef", s |-> "", len |-> 0, wf |-> TRUE]
Null == [t |-> "null", s |-> "", len |-> 0, wf |-> TRUE]
Str(s, n) == [t |-> "str", s |-> s, len |-> n, wf |-> TRUE]
BadStr(s, n) == [t |-> "str", s |-> s, len |-> n, wf |-> FALSE]
Num(s) == [t |-> "num", s |-> s, len |-> 0, wf |-> TRUE]
Bool(s) == [t |-> "bool", s |-> s, len |-> 0, wf |-> TRUE]
EmptyStr == Str("", 0)

\* JavaScript truthiness: !v is Falsy(v)
Falsy(v) ==
    \/ v.t \in {"undef", "null"}
    \/ v.t = "str" /\ v.len = 0
    \/ v.t = "num" /\ v.s = "0"
    \/ v.t = "bool" /\ v.s = "false"

\* v || '' as the RuleConfig fields take test_url and test_title
OrEmpty(v) == IF Falsy(v) THEN EmptyStr ELSE v

(***************************************************************************)
(* Identifiers.  The identifiers of the files are "a" and "b"; a generated *)
(* identifier rule_<Date.now()>_<random> is one of GenIds.                 *)
(***************************************************************************)
FileIds == {"a", "b"}
GenName(i) == "rule_" \o ToString(i)
GenIds == {GenName(i) : i \in 1..(MaxStoreRules + MaxRules)}
AllIds == FileIds \cup GenIds
\* rule_ + 13 digits + _ + 9 characters
IdLen(k) == IF k \in GenIds THEN 28 ELSE 1
IdVal(k) == Str(k, IdLen(k))

\* the order in which the keys of the stored items are enumerated
GenIndex(k) == CHOOSE i \in 1..(MaxStoreRules + MaxRules) : GenName(i) = k
IdRank(k) == IF k = "a" THEN 1 ELSE IF k = "b" THEN 2 ELSE 2 + GenIndex(k)
LeastId(S) == CHOOSE k \in S : \A j \in S : IdRank(k) <= IdRank(j)

RECURSIVE KeySeq(_)
KeySeq(S) == IF S = {} THEN <<>>
             ELSE LET k == LeastId(S) IN <<k>> \o KeySeq(S \ {k})

(***************************************************************************)
(* Rule records of a document and stored rules.                            *)
(***************************************************************************)
\* an element of the rules array: kind is the JSON type of the element,
\* extra the names of its keys that are not known fields, in key order
RuleObj(id, name, url, title, out, turl, ttitle, extra) ==
    [kind |-> "object", id |-> id, name |-> name, url_pattern |-> url,
     title_pattern |-> title, out_pattern |-> out, test_url |-> turl,
     test_title |-> ttitle, extra |-> extra]

\* the fields object a RuleConfig is constructed with
Fields(r) ==
    [name |-> r.name, url_pattern |-> r.url_pattern,
     title_pattern |-> r.title_pattern, out_pattern |-> r.out_pattern,
     test_url |-> OrEmpty(r.test_url), test_title |-> OrEmpty(r.test_title)]

(***************************************************************************)
(* Size estimate: JSON.stringify(x).length.                                *)
(***************************************************************************)
ValLen(v) ==
    CASE v.t = "str" -> v.len + 2
      [] v.t = "null" -> 4
      [] v.t = "undef" -> 0
      [] OTHER -> Len(v.s)

\* "key":value and the comma before it when it is not the first member
MemberLen(keyLen, v, first) ==
    IF v.t = "undef" THEN 0
    ELSE (IF first THEN 0 ELSE 1) + keyLen + 3 + ValLen(v)

RECURSIVE MembersLen(_, _)
\* ms: a sequence of <<key length, value>>; the members that are present
MembersLen(ms, first) ==
    IF ms = <<>> THEN 0
    ELSE MemberLen(ms[1][1], ms[1][2], first)
         + MembersLen(Tail(ms), first /\ ms[1][2].t = "undef")

\* the serialized value of an unknown key: "xN": true, and "xbig": a string
\* of QUOTA_LIMIT characters
ExtraValLen(key) == IF key = "xbig" THEN QUOTA_LIMIT + 2 ELSE 4

RECURSIVE ExtraLen(_, _)
ExtraLen(extra, first) ==
    IF extra = <<>> THEN 0
    ELSE (IF first THEN 0 ELSE 1) + Len(extra[1]) + 3 + ExtraValLen(extra[1])
         + ExtraLen(Tail(extra), FALSE)

RuleMembers(r) ==
    << <<2, r.id>>, <<4, r.name>>, <<11, r.url_pattern>>,
       <<13, r.title_pattern>>, <<11, r.out_pattern>>,
       <<8, r.test_url>>, <<10, r.test_title>> >>

\* JSON.stringify of one element of the rules array
RuleLen(r) ==
    CASE r.kind = "object" ->
           2 + MembersLen(RuleMembers(r), TRUE)
             + ExtraLen(r.extra,
                        \A i \in 1..Len(RuleMembers(r)) :
                            RuleMembers(r)[i][2].t = "undef")
      [] r.kind = "null" -> 4
      [] OTHER -> 1

RECURSIVE SumRuleLen(_)
SumRuleLen(rs) == IF rs = <<>> THEN 0 ELSE RuleLen(rs[1]) + SumRuleLen(Tail(rs))

\* JSON.stringify(data.rules).length
RulesSize(rs) == 2 + SumRuleLen(rs) + (IF Len(rs) > 1 THEN Len(rs) - 1 ELSE 0)

FieldsMembers(f) ==
    << <<4, f.name>>, <<11, f.url_pattern>>, <<13, f.title_pattern>>,
       <<11, f.out_pattern>>, <<8, f.test_url>>, <<10, f.test_title>> >>

RECURSIVE SumItemLen(_, _)
\* "id":{fields} of every stored item
SumItemLen(items, ks) ==
    IF ks = <<>> THEN 0
    ELSE IdLen(ks[1]) + 3 + 2 + MembersLen(FieldsMembers(items[ks[1]]), TRUE)
         + SumItemLen(items, Tail(ks))

\* JSON.stringify(existingItems).length
ItemsSize(items) ==
    LET n == Cardinality(DOMAIN items)
    IN 2 + SumItemLen(items, KeySeq(DOMAIN items)) + (IF n > 1 THEN n - 1 ELSE 0)

(***************************************************************************)
(* Documents.  top is the JSON type of the top-level value; rules.kind is  *)
(* the type of the rules member and rules.items its elements when it is    *)
(* an array.                                                               *)
(***************************************************************************)
RulesArray(items) == [kind |-> "array", items |-> items]
RulesOther(kind) == [kind |-> kind, items |-> <<>>]

Document(fv, at, rules) ==
    [top |-> "object", formatVersion |-> fv, exportedAt |-> at, rules |-> rules]
\* a top-level value that is no object with members: it has no formatVersion,
\* no exportedAt and no rules
TopLevel(kind) ==
    [top |-> kind, formatVersion |-> Undef, exportedAt |-> Undef,
     rules |-> RulesOther("undef")]

(***************************************************************************)
(* validateExportFile.  An error or a warning is a record: its kind, the   *)
(* 1-based position of the record it is about (0: the document), the field *)
(* it names and the name the rule prefix quotes ("" when rule.name is      *)
(* falsy); new is the identifier a conflict note assigns.                  *)
(***************************************************************************)
Msg(kind, i, field, r) ==
    [kind |-> kind, rule |-> i, field |-> field,
     name |-> IF Falsy(r.name) THEN "" ELSE r.name.s, new |-> ""]
DocMsg(kind) ==
    [kind |-> kind, rule |-> 0, field |-> "", name |-> "", new |-> ""]

requiredFields == <<"name", "url_pattern", "title_pattern", "out_pattern">>

FieldOf(r, f) ==
    CASE f = "name" -> r.name
      [] f = "url_pattern" -> r.url_pattern
      [] f = "title_pattern" -> r.title_pattern
      [] f = "out_pattern" -> r.out_pattern
      [] f = "test_url" -> r.test_url
      [] f = "test_title" -> r.test_title
      [] OTHER -> r.id

\* rule[field] === undefined || rule[field] === null || rule[field] === ''
IsMissing(v) == v.t \in {"undef", "null"} \/ (v.t = "str" /\ v.len = 0)

RECURSIVE RequiredErrors(_, _, _)
RequiredErrors(r, i, fs) ==
    IF fs = <<>> THEN <<>>
    ELSE (IF IsMissing(FieldOf(r, fs[1]))
          THEN <<Msg("missing_field", i, fs[1], r)>> ELSE <<>>)
         \o RequiredErrors(r, i, Tail(fs))

\* rule.name && rule.name.length > 100: only a string has a length
NameErrors(r, i) ==
    IF ~Falsy(r.name) /\ r.name.t = "str" /\ r.name.len > MAX_NAME_LENGTH
    THEN <<Msg("name_too_long", i, "name", r)>> ELSE <<>>

\* new RegExp(rule[field]) throws: a number or a boolean always compiles
RegexError(r, i, f) ==
    IF ~Falsy(FieldOf(r, f)) /\ FieldOf(r, f).t = "str" /\ ~FieldOf(r, f).wf
    THEN <<Msg("invalid_regex", i, f, r)>> ELSE <<>>

RECURSIVE UnknownWarnings(_, _, _)
UnknownWarnings(r, i, extra) ==
    IF extra = <<>> THEN <<>>
    ELSE <<Msg("unknown_field", i, extra[1], r)>>
         \o UnknownWarnings(r, i, Tail(extra))

\* faulty variant: the patterns are checked before the required fields
RuleErrors_RegexFirst(r, i) ==
    RegexError(r, i, "url_pattern") \o RegexError(r, i, "title_pattern")
    \o RequiredErrors(r, i, requiredFields) \o NameErrors(r, i)

\* faulty variant: an unknown field is reported as an error
RuleErrors_UnknownIsError(r, i) ==
    RequiredErrors(r, i, requiredFields) \o NameErrors(r, i)
    \o RegexError(r, i, "url_pattern") \o RegexError(r, i, "title_pattern")
    \o UnknownWarnings(r, i, r.extra)

RuleErrors(r, i) ==
    RequiredErrors(r, i, requiredFields) \o NameErrors(r, i)
    \o RegexError(r, i, "url_pattern") \o RegexError(r, i, "title_pattern")

RuleWarnings(r, i) == UnknownWarnings(r, i, r.extra)

\* faulty variant: the validator stops at the first record that has errors
AllRuleErrors_StopAtFirst(rs, i) ==
    LET bad == {k \in i..Len(rs) : RuleErrors(rs[k], k) # <<>>}
        first == CHOOSE k \in bad : \A j \in bad : k <= j
    IN IF bad = {} THEN <<>> ELSE RuleErrors(rs[first], first)

RECURSIVE AllRuleErrors(_, _)
AllRuleErrors(rs, i) ==
    IF i > Len(rs) THEN <<>> ELSE RuleErrors(rs[i], i) \o AllRuleErrors(rs, i + 1)

RECURSIVE AllRuleWarnings(_, _)
AllRuleWarnings(rs, i) ==
    IF i > Len(rs) THEN <<>>
    ELSE RuleWarnings(rs[i], i) \o AllRuleWarnings(rs, i + 1)

\* faulty variant: the version is compared with !=, which takes the number
\* 1 for "1.0"
FormatVersionErrors_Loose(d) ==
    IF Falsy(d.formatVersion) THEN <<DocMsg("missing_formatVersion")>>
    ELSE IF ~(\/ d.formatVersion.t = "str" /\ d.formatVersion.s = "1.0"
              \/ d.formatVersion.t = "num" /\ d.formatVersion.s = "1")
         THEN <<DocMsg("unsupported_formatVersion")>>
         ELSE <<>>

FormatVersionErrors(d) ==
    IF Falsy(d.formatVersion) THEN <<DocMsg("missing_formatVersion")>>
    ELSE IF ~(d.formatVersion.t = "str" /\ d.formatVersion.s = "1.0")
         THEN <<DocMsg("unsupported_formatVersion")>>
         ELSE <<>>

ExportedAtWarnings(d) ==
    IF ~Falsy(d.exportedAt) /\ ~d.exportedAt.wf
    THEN <<DocMsg("invalid_exportedAt")>> ELSE <<>>

ValidationResult(valid, errors, warnings, threw) ==
    [valid |-> valid, errors |-> errors, warnings |-> warnings, threw |-> threw]

\* rule.name of a null element raises a TypeError inside the forEach
Throws(d) == \E i \in 1..Len(d.rules.items) : d.rules.items[i].kind = "null"

\* faulty variant: a formatVersion error ends the validation
validateExportFile_StopAtVersion(d) ==
    IF d.top \in {"null", "number", "string", "bool"}
    THEN ValidationResult(FALSE, <<DocMsg("not_object")>>, <<>>, FALSE)
    ELSE IF FormatVersionErrors(d) # <<>>
    THEN ValidationResult(FALSE, FormatVersionErrors(d), <<>>, FALSE)
    ELSE IF d.rules.kind \in {"undef", "null"}
    THEN ValidationResult(FALSE,
             FormatVersionErrors(d) \o <<DocMsg("missing_rules")>>, <<>>, FALSE)
    ELSE IF d.rules.kind # "array"
    THEN ValidationResult(FALSE,
             FormatVersionErrors(d) \o <<DocMsg("rules_not_array")>>, <<>>, FALSE)
    ELSE IF Throws(d)
    THEN ValidationResult(FALSE, <<>>, <<>>, TRUE)
    ELSE LET errors == FormatVersionErrors(d) \o AllRuleErrors(d.rules.items, 1)
             warnings == AllRuleWarnings(d.rules.items, 1) \o ExportedAtWarnings(d)
         IN ValidationResult(errors = <<>>, errors, warnings, FALSE)

\* faulty variant: a result with warnings is not valid
validateExportFile_WarningsCount(d) ==
    IF d.top \in {"null", "number", "string", "bool"}
    THEN ValidationResult(FALSE, <<DocMsg("not_object")>>, <<>>, FALSE)
    ELSE IF d.rules.kind \in {"undef", "null"}
    THEN ValidationResult(FALSE,
             FormatVersionErrors(d) \o <<DocMsg("missing_rules")>>, <<>>, FALSE)
    ELSE IF d.rules.kind # "array"
    THEN ValidationResult(FALSE,
             FormatVersionErrors(d) \o <<DocMsg("rules_not_array")>>, <<>>, FALSE)
    ELSE IF Throws(d)
    THEN ValidationResult(FALSE, <<>>, <<>>, TRUE)
    ELSE LET errors == FormatVersionErrors(d) \o AllRuleErrors(d.rules.items, 1)
             warnings == AllRuleWarnings(d.rules.items, 1) \o ExportedAtWarnings(d)
         IN ValidationResult(errors = <<>> /\ warnings = <<>>, errors, warnings,
                             FALSE)

validateExportFile(d) ==
    IF d.top \in {"null", "number", "string", "bool"}
    THEN ValidationResult(FALSE, <<DocMsg("not_object")>>, <<>>, FALSE)
    ELSE IF d.rules.kind \in {"undef", "null"}
    THEN ValidationResult(FALSE,
             FormatVersionErrors(d) \o <<DocMsg("missing_rules")>>, <<>>, FALSE)
    ELSE IF d.rules.kind # "array"
    THEN ValidationResult(FALSE,
             FormatVersionErrors(d) \o <<DocMsg("rules_not_array")>>, <<>>, FALSE)
    ELSE IF Throws(d)
    THEN ValidationResult(FALSE, <<>>, <<>>, TRUE)
    ELSE LET errors == FormatVersionErrors(d) \o AllRuleErrors(d.rules.items, 1)
             warnings == AllRuleWarnings(d.rules.items, 1) \o ExportedAtWarnings(d)
         IN ValidationResult(errors = <<>>, errors, warnings, FALSE)

(***************************************************************************)
(* Inputs: the rule records, documents and files the user may select.      *)
(***************************************************************************)
ValidDate == Str("2025-10-08T00:00:00.000Z", 24)
Version10 == Str("1.0", 3)

RuleP(id) ==
    RuleObj(id, Str("P", 1), Str(".*", 2), Str(".*", 2), Str("$1", 2),
            Undef, Undef, <<>>)
RuleQ(id) ==
    RuleObj(id, Str("Q", 1), Str("^x", 2), Str(".*", 2), Str("$2", 2),
            Str("u", 1), Undef, <<>>)
\* a record whose out_pattern has n characters
RuleBig(id, n) ==
    RuleObj(id, Str("B", 1), Str(".*", 2), Str(".*", 2), Str("big", n),
            Undef, Undef, <<>>)

InputIds == {Undef} \cup {IdVal(k) : k \in FileIds}
InputRules == {RuleP(id) : id \in InputIds} \cup {RuleQ(id) : id \in InputIds}

SeqsUpTo(S, n) == UNION {[1..k -> S] : k \in 0..n}

ValidDoc(rs) == Document(Version10, ValidDate, RulesArray(rs))

\* every valid document of at most MaxRules records
GeneratedDocs == {ValidDoc(rs) : rs \in SeqsUpTo(InputRules, MaxRules)}

\* the out_pattern length that makes RulesSize(<<RuleBig(IdVal("b"), n)>>)
\* equal to QUOTA_LIMIT + d - 2
BigLen(d) == QUOTA_LIMIT + d - 82

\* one record each, of serialized size QUOTA_LIMIT - 2 .. QUOTA_LIMIT + 1
QuotaDocs == {ValidDoc(<<RuleBig(IdVal("b"), BigLen(d))>>) : d \in 0..3}

SchemaDocs ==
    { \* the empty string as identifier
      ValidDoc(<<RuleP(EmptyStr)>>),
      \* unknown fields on a complete record
      ValidDoc(<<RuleObj(IdVal("a"), Str("P", 1), Str(".*", 2), Str(".*", 2),
                         Str("$1", 2), Undef, Undef, <<"x1", "x2">>)>>),
      ValidDoc(<<RuleObj(IdVal("a"), Str("P", 1), Str(".*", 2), Str(".*", 2),
                         Str("$1", 2), Undef, Undef, <<"x1">>),
                 RuleObj(Undef, Str("Q", 1), Str("^x", 2), Str(".*", 2),
                         Str("$2", 2), Str("u", 1), Undef, <<"x1", "x3">>)>>),
      \* a complete record with an unknown field of QUOTA_LIMIT characters
      ValidDoc(<<RuleObj(IdVal("a"), Str("P", 1), Str(".*", 2), Str(".*", 2),
                         Str("$1", 2), Undef, Undef, <<"xbig">>)>>),
      \* an exportedAt that is no date
      Document(Version10, BadStr("yesterday", 9), RulesArray(<<RuleP(IdVal("a"))>>)),
      \* formatVersion missing, unsupported, a number
      Document(Undef, ValidDate, RulesArray(<<RuleP(IdVal("a"))>>)),
      Document(Str("2.0", 3), ValidDate, RulesArray(<<RuleP(IdVal("a"))>>)),
      Document(Num("1"), ValidDate, RulesArray(<<>>)),
      \* rules missing, rules no array
      Document(Version10, ValidDate, RulesOther("undef")),
      Document(Version10, ValidDate, RulesOther("object")),
      \* records with a missing field, an invalid pattern, a long name
      ValidDoc(<<RuleObj(IdVal("a"), Undef, Str(".*", 2), Str(".*", 2),
                         Str("$1", 2), Undef, Undef, <<>>),
                 RuleObj(IdVal("b"), Str("Q", 1), EmptyStr, Str(".*", 2),
                         Null, Undef, Undef, <<>>)>>),
      ValidDoc(<<RuleObj(IdVal("a"), Str("Email", 5), BadStr("[invalid(", 9),
                         Str(".*", 2), Str("$1", 2), Undef, Undef, <<"x1">>)>>),
      ValidDoc(<<RuleObj(IdVal("a"), Str("long", MAX_NAME_LENGTH + 1),
                         Str(".*", 2), Str(".*", 2), Str("$1", 2),
                         Undef, Undef, <<>>)>>),
      \* a name that is a number
      ValidDoc(<<RuleObj(IdVal("a"), Num("123"), Str(".*", 2), Str(".*", 2),
                         Str("$1", 2), Undef, Undef, <<>>)>>),
      \* a null element in the rules array
      ValidDoc(<<RuleP(IdVal("a")),
                 [RuleP(Undef) EXCEPT !.kind = "null", !.name = Undef,
                     !.url_pattern = Undef, !.title_pattern = Undef,
                     !.out_pattern = Undef]>>),
      \* top-level values that are no object with members
      TopLevel("null"), TopLevel("number"), TopLevel("array") }

Docs == GeneratedDocs \cup QuotaDocs \cup SchemaDocs

\* a document that is schema-invalid and whose rules exceed the quota
InvalidBigDoc ==
    Document(Str("2.0", 3), ValidDate,
             RulesArray(<<RuleBig(IdVal("b"), BigLen(3))>>))

JsonFile(d, size) == [size |-> size, text |-> "json", data |-> d]
\* a file whose text is no JSON
SyntaxFile == [size |-> 16, text |-> "syntax", data |-> TopLevel("null")]
NoFile == [size |-> 0, text |-> "none", data |-> TopLevel("null")]

\* the files of the input element: a document padded with white space to
\* the size the file reports
Files ==
    {JsonFile(d, 1024) : d \in Docs}
    \cup {JsonFile(ValidDoc(<<RuleP(IdVal("a"))>>), sz) :
            sz \in {MAX_FILE_SIZE, MAX_FILE_SIZE + 1}}
    \cup {SyntaxFile, [SyntaxFile EXCEPT !.size = MAX_FILE_SIZE + 1]}
    \cup {JsonFile(InvalidBigDoc, sz) : sz \in {2 * QUOTA_LIMIT, MAX_FILE_SIZE + 1}}
    \cup {JsonFile(d, MAX_FILE_SIZE + 1) : d \in QuotaDocs}

Modes == {"replace", "merge", "append"}

\* the out_pattern length that makes ItemsSize of a store holding
\* RuleBig alone under "b" equal to QUOTA_LIMIT + d - 2
StoreBigLen(d) == QUOTA_LIMIT + d - 107

\* the rule stores of the initial states: what earlier operations left
InitStores ==
    UNION {[S -> {Fields(RuleP(Undef)), Fields(RuleQ(Undef))}] :
             S \in SUBSET FileIds}
    \cup {[k \in {"b"} |-> Fields(RuleBig(Undef, StoreBigLen(d)))] : d \in 0..1}

(***************************************************************************)
(* State.                                                                  *)
(***************************************************************************)
VARIABLES
    store,        \* the persisted rules: identifier -> fields
    clearPending, \* a Config.remove_all() was issued and has not taken effect
    pc,           \* where the operation in flight stands
    file,         \* the file of the import call
    mode,         \* the mode of the import call
    result,       \* how the import call ended
    download,     \* the file the last export handed to the browser
    storeAtCall,  \* what the store held when the import was called
    issued,       \* the storage operations the call in flight has issued
    existingIds,  \* the merge loop's set of identifiers
    idx,          \* the position of the record whose save is in flight
    curId,        \* the identifier that record is saved under
    importedCount,
    importErrors,
    idConflicts,
    assigned,     \* the identifiers the call has assigned, in input order
    saved,        \* what each save of the call reported, in input order
    origin,       \* the file of the call: "picked", "again" or "download"
    exportedFrom, \* what the store held when the download was built
    disabled,     \* the disabled attribute of the two import buttons
    handlers      \* the handleImport calls since the page was loaded

vars == <<store, clearPending, pc, file, mode, result, download, storeAtCall,
          issued, existingIds, idx, curId, importedCount, importErrors,
          idConflicts, assigned, saved, origin, exportedFrom, disabled,
          handlers>>

\* the state of ExportImport and of the storage, and the state of the page
coreVars == <<store, clearPending, pc, file, mode, result, download,
              storeAtCall, issued, existingIds, idx, curId, importedCount,
              importErrors, idConflicts, assigned, saved, origin,
              exportedFrom>>
pageVars == <<disabled, handlers>>

EmptyStore == [k \in {} |-> Fields(RuleP(Undef))]

\* what Config.get_all would hand back if it were issued now: the storage
\* collaborator serves its requests in the order they were issued, so a read
\* comes after a clear that is still pending
Persisted == IF clearPending THEN EmptyStore ELSE store

\* where the page is at rest: no operation has started, or one has ended
Ready == {"idle", "exported"}
Ended == {"resolved", "rejected", "exported", "exportFailed"}

NoResult ==
    [kind |-> "none", gate |-> "", success |-> FALSE, importedCount |-> 0,
     errors |-> <<>>, warnings |-> <<>>, sizes |-> <<>>]
\* reject(new Error(...)): the gate that failed, the validator's errors the
\* message joins, the sizes it reports
Rejected(gate, errors, sizes) ==
    [kind |-> "rejected", gate |-> gate, success |-> FALSE, importedCount |-> 0,
     errors |-> errors, warnings |-> <<>>, sizes |-> sizes]
\* resolve({success, importedCount, errors, warnings})
Resolved(count, errors, warnings) ==
    [kind |-> "resolved", gate |-> "", success |-> errors = <<>>,
     importedCount |-> count, errors |-> errors, warnings |-> warnings,
     sizes |-> <<>>]

Op(op, id) == [op |-> op, id |-> id]

Rules == file.data.rules.items

\* rule_${Date.now()}_${Math.random()...}: an identifier that no rule of the
\* store, of the document or of this call carries
DocIds(rs) == {rs[i].id.s : i \in 1..Len(rs)}
Range(q) == {q[i] : i \in 1..Len(q)}
NewId(live) ==
    GenName(CHOOSE i \in 1..(MaxStoreRules + MaxRules) :
              /\ GenName(i) \notin live
              /\ \A j \in 1..(i - 1) : GenName(j) \in live)
Live == DOMAIN store \cup DOMAIN storeAtCall \cup existingIds
        \cup Range(assigned) \cup DocIds(Rules)

Init ==
    /\ store \in InitStores
    /\ clearPending = FALSE
    /\ pc = "idle"
    /\ file = NoFile
    /\ mode = ""
    /\ result = NoResult
    /\ download = NoFile
    /\ storeAtCall = EmptyStore
    /\ issued = <<>>
    /\ existingIds = {}
    /\ idx = 0
    /\ curId = ""
    /\ importedCount = 0
    /\ importErrors = <<>>
    /\ idConflicts = <<>>
    /\ assigned = <<>>
    /\ saved = <<>>
    /\ origin = ""
    /\ exportedFrom = EmptyStore
    /\ disabled = FALSE
    /\ handlers = <<>>

(***************************************************************************)
(* The storage collaborator (config.js).                                   *)
(***************************************************************************)
\* RuleConfig.save, when it reports success: the rule is upserted
Put(items, k, f) ==
    [x \in DOMAIN items \cup {k} |-> IF x = k THEN f ELSE items[x]]

\* Config.remove_all() takes effect
ClearTakesEffect ==
    /\ clearPending
    /\ store' = EmptyStore
    /\ clearPending' = FALSE
    /\ UNCHANGED <<pc, file, mode, result, download, storeAtCall, issued,
                   existingIds, idx, curId, importedCount, importErrors,
                   idConflicts, assigned, saved, origin, exportedFrom>>
    /\ UNCHANGED pageVars

(***************************************************************************)
(* importRules.                                                            *)
(***************************************************************************)
\* reject(new Error(...)) before the commit phase
Reject(gate, errors, sizes) ==
    /\ pc' = "rejected"
    /\ result' = Rejected(gate, errors, sizes)
    /\ UNCHANGED <<store, clearPending, file, mode, download, storeAtCall,
                   issued, existingIds, idx, curId, importedCount,
                   importErrors, idConflicts, assigned, saved, origin,
                   exportedFrom>>

\* the call, up to reader.readAsText(file)
StartImport(f, m) ==
    /\ f.text # "none"
    /\ m = "merge" =>
         Cardinality(DOMAIN Persisted) + Len(f.data.rules.items) <= MaxStoreRules
    /\ file' = f
    /\ mode' = m
    /\ storeAtCall' = Persisted
    /\ download' = NoFile
    /\ issued' = <<>>
    /\ existingIds' = {}
    /\ idx' = 0
    /\ curId' = ""
    /\ importedCount' = 0
    /\ importErrors' = <<>>
    /\ idConflicts' = <<>>
    /\ assigned' = <<>>
    /\ saved' = <<>>
    /\ IF f.size > MAX_FILE_SIZE
       THEN pc' = "rejected" /\ result' = Rejected("size", <<>>, <<>>)
       ELSE pc' = "reading" /\ result' = NoResult
    /\ UNCHANGED <<store, clearPending, exportedFrom>>

\* the user selects a file and clicks an import button
importRules(f, m) ==
    /\ pc = "idle"
    /\ origin' = "picked"
    /\ StartImport(f, m)
    /\ UNCHANGED pageVars

\* the user selects the file the export has just written and clicks an
\* import button
importDownload(m) ==
    /\ pc = "exported"
    /\ origin' = "download"
    /\ StartImport(download, m)
    /\ UNCHANGED pageVars

\* the user clicks the replace button again after a replace import that
\* resolved with success, the same file still selected
importAgain ==
    /\ pc = "resolved"
    /\ mode = "replace"
    /\ result.success
    /\ origin # "again"
    /\ origin' = "again"
    /\ StartImport(file, mode)
    /\ UNCHANGED pageVars

\* faulty variant: the read failure is not passed on to the promise
onerror_NoReject ==
    /\ pc = "reading"
    /\ pc' = "unsettled"
    /\ UNCHANGED <<store, clearPending, file, mode, result, download,
                   storeAtCall, issued, existingIds, idx, curId, importedCount,
                   importErrors, idConflicts, assigned, saved, origin,
                   exportedFrom>>
    /\ UNCHANGED pageVars

\* reader.onerror
onerror ==
    /\ pc = "reading"
    /\ Reject("read", <<>>, <<>>)
    /\ UNCHANGED pageVars

ConflictNote(i, r, old, new) ==
    [kind |-> "id_conflict", rule |-> i, field |-> old,
     name |-> r.name.s, new |-> new]

\* faulty variant: the conflict notes come before the validator's warnings
ResultWarnings_ConflictsFirst(conflicts) ==
    (IF mode = "merge" THEN conflicts ELSE <<>>)
    \o validateExportFile(file.data).warnings

\* the warnings of the resolved result
ResultWarnings(conflicts) ==
    validateExportFile(file.data).warnings
    \o (IF mode = "merge" THEN conflicts ELSE <<>>)

\* faulty variant: the loop does not add the identifiers it assigns to the
\* set, so only the keys the store had when read count as taken
IsConflict_StoreOnly(r, ids) ==
    mode = "merge" /\ ~Falsy(r.id) /\ r.id.s \in DOMAIN storeAtCall
\* faulty variant: a record without identifier counts as a conflict
IsConflict_MissingToo(r, ids) ==
    mode = "merge" /\ (Falsy(r.id) \/ r.id.s \in ids)
\* faulty variant: a conflicting record keeps the identifier it carries
RuleId_KeepIncoming(r, ids) ==
    IF Falsy(r.id) THEN NewId(Live) ELSE r.id.s

\* faulty variant: every record is given a generated identifier
RuleId_AlwaysNew(r, ids) == NewId(Live)
\* the identifier record r is saved under, given the loop's identifier set
IsConflict(r, ids) == mode = "merge" /\ ~Falsy(r.id) /\ r.id.s \in ids
RuleId(r, ids) ==
    IF Falsy(r.id) \/ IsConflict(r, ids) THEN NewId(Live) ELSE r.id.s

\* faulty variant: the save of the next record is issued without waiting
\* for the callback of this one
Iterate_NoAwait(i, count, errors, ids) ==
    /\ importedCount' = count
    /\ importErrors' = errors
    /\ IF i > Len(Rules)
       THEN /\ pc' = "resolved"
            /\ result' = Resolved(count, errors, ResultWarnings(idConflicts))
            /\ idx' = 0
            /\ curId' = ""
            /\ existingIds' = ids
            /\ UNCHANGED <<idConflicts, assigned, issued>>
       ELSE LET r == Rules[i]
                ruleId == RuleId(r, ids)
            IN /\ pc' = "saving"
               /\ idx' = i
               /\ curId' = ruleId
               /\ idConflicts' =
                    IF IsConflict(r, ids)
                    THEN Append(idConflicts, ConflictNote(i, r, r.id.s, ruleId))
                    ELSE idConflicts
               /\ existingIds' = IF mode = "merge" THEN ids \cup {ruleId} ELSE ids
               /\ assigned' = Append(assigned, ruleId)
               /\ issued' =
                    IF i < Len(Rules)
                    THEN issued \o <<Op("save", ruleId),
                                     Op("save", RuleId(Rules[i + 1], ids \cup {ruleId}))>>
                    ELSE Append(issued, Op("save", ruleId))
               /\ UNCHANGED result

\* the head of the for loop: record i is given its identifier and its save
\* is issued, or the loop is over and the promise resolves
Iterate(i, count, errors, ids) ==
    /\ importedCount' = count
    /\ importErrors' = errors
    /\ IF i > Len(Rules)
       THEN /\ pc' = "resolved"
            /\ result' = Resolved(count, errors, ResultWarnings(idConflicts))
            /\ idx' = 0
            /\ curId' = ""
            /\ existingIds' = ids
            /\ UNCHANGED <<idConflicts, assigned, issued>>
       ELSE LET r == Rules[i]
                ruleId == RuleId(r, ids)
            IN /\ pc' = "saving"
               /\ idx' = i
               /\ curId' = ruleId
               /\ idConflicts' =
                    IF IsConflict(r, ids)
                    THEN Append(idConflicts, ConflictNote(i, r, r.id.s, ruleId))
                    ELSE idConflicts
               /\ existingIds' = IF mode = "merge" THEN ids \cup {ruleId} ELSE ids
               /\ assigned' = Append(assigned, ruleId)
               /\ issued' = Append(issued, Op("save", ruleId))
               /\ UNCHANGED result

\* faulty variant: Config.remove_all() is called before the quota check
ReplaceStart_ClearFirst ==
    LET importSize == RulesSize(Rules)
    IN /\ clearPending' = TRUE
       /\ issued' = Append(issued, Op("remove_all", ""))
       /\ IF importSize > QUOTA_LIMIT
          THEN /\ pc' = "rejected"
               /\ result' = Rejected("quota", <<>>, <<importSize, QUOTA_LIMIT>>)
          ELSE /\ pc' = "delay"
               /\ UNCHANGED result
       /\ UNCHANGED <<store, file, mode, download, storeAtCall, existingIds,
                      idx, curId, importedCount, importErrors, idConflicts,
                      assigned, saved, origin, exportedFrom>>
\* faulty variant: the store is not cleared
ReplaceStart_NoClear ==
    LET importSize == RulesSize(Rules)
    IN IF importSize > QUOTA_LIMIT
       THEN Reject("quota", <<>>, <<importSize, QUOTA_LIMIT>>)
       ELSE /\ pc' = "delay"
            /\ UNCHANGED <<store, clearPending, file, mode, result, download,
                           storeAtCall, issued, existingIds, idx, curId,
                           importedCount, importErrors, idConflicts, assigned,
                           saved, origin, exportedFrom>>
\* faulty variant: a document of exactly QUOTA_LIMIT characters is refused
ReplaceStart_AtLimit ==
    LET importSize == RulesSize(Rules)
    IN IF importSize >= QUOTA_LIMIT
       THEN Reject("quota", <<>>, <<importSize, QUOTA_LIMIT>>)
       ELSE /\ clearPending' = TRUE
            /\ issued' = Append(issued, Op("remove_all", ""))
            /\ pc' = "delay"
            /\ UNCHANGED <<store, file, mode, result, download, storeAtCall,
                           existingIds, idx, curId, importedCount,
                           importErrors, idConflicts, assigned, saved, origin,
                           exportedFrom>>

\* replace mode: the quota check, then Config.remove_all() and the timer
ReplaceStart ==
    LET importSize == RulesSize(Rules)
    IN IF importSize > QUOTA_LIMIT
       THEN Reject("quota", <<>>, <<importSize, QUOTA_LIMIT>>)
       ELSE /\ clearPending' = TRUE
            /\ issued' = Append(issued, Op("remove_all", ""))
            /\ pc' = "delay"
            /\ UNCHANGED <<store, file, mode, result, download, storeAtCall,
                           existingIds, idx, curId, importedCount,
                           importErrors, idConflicts, assigned, saved, origin,
                   exportedFrom>>

\* merge mode: Config.get_all is issued
MergeStart ==
    /\ issued' = Append(issued, Op("get_all", ""))
    /\ pc' = "getall"
    /\ UNCHANGED <<store, clearPending, file, mode, result, download,
                   storeAtCall, existingIds, idx, curId, importedCount,
                   importErrors, idConflicts, assigned, saved, origin,
                   exportedFrom>>

\* faulty variant: in replace mode the size of the rules is checked before
\* the document is validated
onload_QuotaBeforeSchema ==
    /\ pc = "reading"
    /\ LET validation == validateExportFile(file.data)
       IN IF file.text # "json" THEN Reject("parse", <<>>, <<>>)
          ELSE IF mode = "replace" /\ RulesSize(Rules) > QUOTA_LIMIT
          THEN Reject("quota", <<>>, <<RulesSize(Rules), QUOTA_LIMIT>>)
          ELSE IF validation.threw THEN Reject("exception", <<>>, <<>>)
          ELSE IF ~validation.valid THEN Reject("schema", validation.errors, <<>>)
          ELSE IF mode = "replace" THEN ReplaceStart
          ELSE IF mode = "merge" THEN MergeStart
          ELSE Reject("mode", <<>>, <<>>)
    /\ UNCHANGED pageVars

\* faulty variant: the rejection carries the first validation error only
onload_FirstErrorOnly ==
    /\ pc = "reading"
    /\ LET validation == validateExportFile(file.data)
       IN IF file.text # "json" THEN Reject("parse", <<>>, <<>>)
          ELSE IF validation.threw THEN Reject("exception", <<>>, <<>>)
          ELSE IF ~validation.valid
          THEN Reject("schema", <<validation.errors[1]>>, <<>>)
          ELSE IF mode = "replace" THEN ReplaceStart
          ELSE IF mode = "merge" THEN MergeStart
          ELSE Reject("mode", <<>>, <<>>)
    /\ UNCHANGED pageVars

\* faulty variant: the mode is looked at before the text is parsed
onload_ModeFirst ==
    /\ pc = "reading"
    /\ LET validation == validateExportFile(file.data)
       IN IF mode \notin {"replace", "merge"} THEN Reject("mode", <<>>, <<>>)
          ELSE IF file.text # "json" THEN Reject("parse", <<>>, <<>>)
          ELSE IF validation.threw THEN Reject("exception", <<>>, <<>>)
          ELSE IF ~validation.valid THEN Reject("schema", validation.errors, <<>>)
          ELSE IF mode = "replace" THEN ReplaceStart
          ELSE MergeStart
    /\ UNCHANGED pageVars

\* reader.onload: parse, validate, dispatch on the mode
onload ==
    /\ pc = "reading"
    /\ LET validation == validateExportFile(file.data)
       IN IF file.text # "json" THEN Reject("parse", <<>>, <<>>)
          ELSE IF validation.threw THEN Reject("exception", <<>>, <<>>)
          ELSE IF ~validation.valid THEN Reject("schema", validation.errors, <<>>)
          ELSE IF mode = "replace" THEN ReplaceStart
          ELSE IF mode = "merge" THEN MergeStart
          ELSE Reject("mode", <<>>, <<>>)
    /\ UNCHANGED pageVars

\* replace mode: the 100 ms timer fires and the loop starts
TimerFires ==
    /\ pc = "delay"
    /\ Iterate(1, 0, <<>>, existingIds)
    /\ UNCHANGED <<store, clearPending, file, mode, download, storeAtCall,
                   saved, origin, exportedFrom>>
    /\ UNCHANGED pageVars

\* faulty variant: the identifier set does not start from the store's keys
MergeCommit_NoExistingIds ==
    LET existingSize == ItemsSize(store)
        importSize == RulesSize(Rules)
    IN IF existingSize + importSize > QUOTA_LIMIT
       THEN Reject("quota", <<>>,
                   <<existingSize + importSize, QUOTA_LIMIT, existingSize,
                     importSize>>)
       ELSE /\ Iterate(1, 0, <<>>, {})
            /\ UNCHANGED <<store, clearPending, file, mode, download,
                           storeAtCall, saved, origin, exportedFrom>>
\* faulty variant: a combined size of exactly QUOTA_LIMIT is refused
MergeCommit_AtLimit ==
    LET existingSize == ItemsSize(store)
        importSize == RulesSize(Rules)
    IN IF existingSize + importSize >= QUOTA_LIMIT
       THEN Reject("quota", <<>>,
                   <<existingSize + importSize, QUOTA_LIMIT, existingSize,
                     importSize>>)
       ELSE /\ Iterate(1, 0, <<>>, DOMAIN store)
            /\ UNCHANGED <<store, clearPending, file, mode, download,
                           storeAtCall, saved, origin, exportedFrom>>
\* faulty variant: the quota check looks at the incoming size alone
MergeCommit_ImportSizeOnly ==
    LET existingSize == ItemsSize(store)
        importSize == RulesSize(Rules)
    IN IF importSize > QUOTA_LIMIT
       THEN Reject("quota", <<>>,
                   <<existingSize + importSize, QUOTA_LIMIT, existingSize,
                     importSize>>)
       ELSE /\ Iterate(1, 0, <<>>, DOMAIN store)
            /\ UNCHANGED <<store, clearPending, file, mode, download,
                           storeAtCall, saved, origin, exportedFrom>>

\* faulty variant: an empty store contributes nothing to the combined size
MergeCommit_EmptyIsZero ==
    LET existingSize == IF store = EmptyStore THEN 0 ELSE ItemsSize(store)
        importSize == RulesSize(Rules)
    IN IF existingSize + importSize > QUOTA_LIMIT
       THEN Reject("quota", <<>>,
                   <<existingSize + importSize, QUOTA_LIMIT, existingSize,
                     importSize>>)
       ELSE /\ Iterate(1, 0, <<>>, DOMAIN store)
            /\ UNCHANGED <<store, clearPending, file, mode, download,
                           storeAtCall, saved, origin, exportedFrom>>

\* merge mode: the callback of Config.get_all
MergeCommit ==
    LET existingSize == ItemsSize(store)
        importSize == RulesSize(Rules)
    IN IF existingSize + importSize > QUOTA_LIMIT
       THEN Reject("quota", <<>>,
                   <<existingSize + importSize, QUOTA_LIMIT, existingSize,
                     importSize>>)
       ELSE /\ Iterate(1, 0, <<>>, DOMAIN store)
            /\ UNCHANGED <<store, clearPending, file, mode, download,
                           storeAtCall, saved, origin, exportedFrom>>

\* faulty variant: a failing read is taken for a damaged store, which is
\* cleared before the call is rejected
GetAllCallback_ClearsOnError(err) ==
    /\ pc = "getall"
    /\ ~clearPending
    /\ IF err
       THEN /\ pc' = "rejected"
            /\ result' = Rejected("getall", <<>>, <<>>)
            /\ clearPending' = TRUE
            /\ issued' = Append(issued, Op("remove_all", ""))
            /\ UNCHANGED <<store, file, mode, download, storeAtCall,
                           existingIds, idx, curId, importedCount,
                           importErrors, idConflicts, assigned, saved, origin,
                           exportedFrom>>
       ELSE MergeCommit
    /\ UNCHANGED pageVars

GetAllCallback(err) ==
    /\ pc = "getall"
    /\ ~clearPending
    /\ IF err THEN Reject("getall", <<>>, <<>>) ELSE MergeCommit
    /\ UNCHANGED pageVars

\* faulty variant: a failed save is passed over without recording its error
SaveCallback_DropsError(ok) ==
    /\ pc = "saving"
    /\ ~clearPending
    /\ IF ok
       THEN /\ store' = Put(store, curId, Fields(Rules[idx]))
            /\ Iterate(idx + 1, importedCount + 1, importErrors, existingIds)
       ELSE /\ store' = store
            /\ Iterate(idx + 1, importedCount, importErrors, existingIds)
    /\ saved' = Append(saved, ok)
    /\ UNCHANGED <<clearPending, file, mode, download, storeAtCall, origin,
                   exportedFrom>>
    /\ UNCHANGED pageVars

\* faulty variant: a failing save puts the rules of before the import back
SaveCallback_RollsBack(ok) ==
    /\ pc = "saving"
    /\ ~clearPending
    /\ IF ok
       THEN /\ store' = Put(store, curId, Fields(Rules[idx]))
            /\ Iterate(idx + 1, importedCount + 1, importErrors, existingIds)
       ELSE /\ store' = storeAtCall
            /\ Iterate(idx + 1, importedCount,
                       Append(importErrors, Msg("save_failed", idx, "", Rules[idx])),
                       existingIds)
    /\ saved' = Append(saved, ok)
    /\ UNCHANGED <<clearPending, file, mode, download, storeAtCall, origin,
                   exportedFrom>>
    /\ UNCHANGED pageVars

\* faulty variant: the first failing save ends the loop
SaveCallback_AbortsOnError(ok) ==
    /\ pc = "saving"
    /\ ~clearPending
    /\ IF ok
       THEN /\ store' = Put(store, curId, Fields(Rules[idx]))
            /\ Iterate(idx + 1, importedCount + 1, importErrors, existingIds)
       ELSE /\ store' = store
            /\ Iterate(Len(Rules) + 1, importedCount,
                       Append(importErrors, Msg("save_failed", idx, "", Rules[idx])),
                       existingIds)
    /\ saved' = Append(saved, ok)
    /\ UNCHANGED <<clearPending, file, mode, download, storeAtCall, origin,
                   exportedFrom>>
    /\ UNCHANGED pageVars

\* the callback of ruleConfig.save: the count or the error list grows and
\* the loop goes on
SaveCallback(ok) ==
    /\ pc = "saving"
    /\ ~clearPending
    /\ IF ok
       THEN /\ store' = Put(store, curId, Fields(Rules[idx]))
            /\ Iterate(idx + 1, importedCount + 1, importErrors, existingIds)
       ELSE /\ store' = store
            /\ Iterate(idx + 1, importedCount,
                       Append(importErrors, Msg("save_failed", idx, "", Rules[idx])),
                       existingIds)
    /\ saved' = Append(saved, ok)
    /\ UNCHANGED <<clearPending, file, mode, download, storeAtCall, origin,
                   exportedFrom>>
    /\ UNCHANGED pageVars

(***************************************************************************)
(* exportRules and the options page's delete_all_rules.                    *)
(***************************************************************************)
ResetCall ==
    /\ file' = NoFile
    /\ mode' = ""
    /\ result' = NoResult
    /\ storeAtCall' = EmptyStore
    /\ issued' = <<Op("get_all", "")>>
    /\ existingIds' = {}
    /\ idx' = 0
    /\ curId' = ""
    /\ importedCount' = 0
    /\ importErrors' = <<>>
    /\ idConflicts' = <<>>
    /\ assigned' = <<>>
    /\ saved' = <<>>
    /\ origin' = ""
    /\ exportedFrom' = EmptyStore

\* faulty variant: the exported record does not carry the storage key
ExportedRule_NoId(items, k) ==
    RuleObj(Undef, items[k].name, items[k].url_pattern,
            items[k].title_pattern, items[k].out_pattern, items[k].test_url,
            items[k].test_title, <<>>)

\* the rules array exportRules builds from the stored items
ExportedRule(items, k) ==
    RuleObj(IdVal(k), items[k].name, items[k].url_pattern,
            items[k].title_pattern, items[k].out_pattern, items[k].test_url,
            items[k].test_title, <<>>)
\* faulty variant: the last key of the stored items is left out
ExportedRules_DropsLast(items) ==
    [i \in 1..(IF items = EmptyStore THEN 0 ELSE Cardinality(DOMAIN items) - 1) |->
        ExportedRule(items, KeySeq(DOMAIN items)[i])]
ExportedRules(items) ==
    [i \in 1..Cardinality(DOMAIN items) |->
        ExportedRule(items, KeySeq(DOMAIN items)[i])]
\* the document, and the file the browser writes (the pretty-printed text is
\* no shorter than the rules it holds)
ExportedDoc(items) == ValidDoc(ExportedRules(items))
ExportedFile(items) ==
    JsonFile(ExportedDoc(items), RulesSize(ExportedRules(items)))

\* the call, up to Config.get_all
exportRules ==
    /\ pc \in {"idle"} \cup Ended
    /\ pc' = "exporting"
    /\ download' = NoFile
    /\ ResetCall
    /\ UNCHANGED <<store, clearPending>>
    /\ UNCHANGED pageVars

\* faulty variant: the export empties the store once it has read it
ExportCallback_ClearsStore(err) ==
    /\ pc = "exporting"
    /\ ~clearPending
    /\ IF err
       THEN pc' = "exportFailed" /\ UNCHANGED <<download, exportedFrom>>
       ELSE /\ pc' = "downloading"
            /\ download' = ExportedFile(store)
            /\ exportedFrom' = store
    /\ store' = EmptyStore
    /\ UNCHANGED <<clearPending, file, mode, result, storeAtCall,
                   issued, existingIds, idx, curId, importedCount,
                   importErrors, idConflicts, assigned, saved, origin>>
    /\ UNCHANGED pageVars

\* the callback of Config.get_all: the document is built and downloaded
ExportCallback(err) ==
    /\ pc = "exporting"
    /\ ~clearPending
    /\ IF err
       THEN pc' = "exportFailed" /\ UNCHANGED <<download, exportedFrom>>
       ELSE /\ pc' = "downloading"
            /\ download' = ExportedFile(store)
            /\ exportedFrom' = store
    /\ UNCHANGED <<store, clearPending, file, mode, result, storeAtCall,
                   issued, existingIds, idx, curId, importedCount,
                   importErrors, idConflicts, assigned, saved, origin>>
    /\ UNCHANGED pageVars

\* the 100 ms cleanup timer: the promise resolves
ExportResolve ==
    /\ pc = "downloading"
    /\ pc' = "exported"
    /\ UNCHANGED <<store, clearPending, file, mode, result, download,
                   storeAtCall, issued, existingIds, idx, curId,
                   importedCount, importErrors, idConflicts, assigned, saved, origin,
                   exportedFrom>>
    /\ UNCHANGED pageVars

\* Options.delete_all_rules, confirmed: Config.remove_all() and a reload
delete_all_rules ==
    /\ pc \in Ready
    /\ ~clearPending
    /\ clearPending' = TRUE
    /\ UNCHANGED <<store, pc, file, mode, result, download, storeAtCall,
                   issued, existingIds, idx, curId, importedCount,
                   importErrors, idConflicts, assigned, saved, origin,
                   exportedFrom>>
    /\ UNCHANGED pageVars

Next ==
    \/ \E f \in Files, m \in Modes : importRules(f, m)
    \/ \E m \in Modes : importDownload(m)
    \/ importAgain
    \/ onerror
    \/ onload
    \/ TimerFires
    \/ \E err \in BOOLEAN : GetAllCallback(err)
    \/ \E ok \in BOOLEAN : SaveCallback(ok)
    \/ ClearTakesEffect
    \/ exportRules
    \/ \E err \in BOOLEAN : ExportCallback(err)
    \/ ExportResolve
    \/ delete_all_rules

Spec == Init /\ [][Next]_vars

\* the file reader fires load or error, the 100 ms timer fires, and the
\* storage collaborator completes every request it was given: the clear, the
\* read and each save call back
CallbacksFire ==
    /\ WF_vars(onload \/ onerror)
    /\ WF_vars(TimerFires)
    /\ WF_vars(\E err \in BOOLEAN : GetAllCallback(err))
    /\ WF_vars(\E ok \in BOOLEAN : SaveCallback(ok))
    /\ WF_vars(ClearTakesEffect)

LiveSpec == Spec /\ CallbacksFire

(***************************************************************************)
(* validateExportFile called on its own, on a wider set of documents.      *)
(***************************************************************************)
RequiredSet == {requiredFields[k] : k \in 1..Len(requiredFields)}

\* a record in which the fields of miss are absent, null or empty
RuleMissing(miss) ==
    RuleObj(IdVal("a"),
            IF "name" \in miss THEN Undef ELSE Str("N", 1),
            IF "url_pattern" \in miss THEN Null ELSE Str(".*", 2),
            IF "title_pattern" \in miss THEN EmptyStr ELSE Str(".*", 2),
            IF "out_pattern" \in miss THEN Undef ELSE Str("$1", 2),
            Undef, Undef, <<>>)

\* documents of up to MaxValidated records, each with any set of required
\* fields missing
MissingDocs ==
    {ValidDoc(rs) :
        rs \in SeqsUpTo({RuleMissing(m) : m \in SUBSET RequiredSet}, MaxValidated)}

ValNames ==
    {Str("N", 1), Undef, Null, EmptyStr, Num("5"), Num("0"),
     Str("max", MAX_NAME_LENGTH), Str("long", MAX_NAME_LENGTH + 1)}
ValUrls == {Str(".*", 2), BadStr("[invalid(", 9), Undef, Null, Num("5")}
ValTitles == {Str(".*", 2), BadStr("(", 1), EmptyStr}
ValOuts == {Str("$1", 2), Null}
ValExtras == {<<>>, <<"x1">>, <<"x1", "x2">>}
ValVersions ==
    {Version10, Undef, Null, EmptyStr, Str("2.0", 3), Str("0.9", 3),
     Str("1", 1), Str("1.00", 4), Str("v1.0", 4), Num("1"), Num("0"),
     Bool("true"), Bool("false")}
ValDates == {ValidDate, Undef, BadStr("yesterday", 9)}

\* documents of one record, with every combination of field values, format
\* versions and dates
VariedDocs ==
    {Document(fv, at, RulesArray(<<RuleObj(IdVal("a"), n, u, t, o, Undef,
                                           Undef, x)>>)) :
        fv \in ValVersions, at \in ValDates, n \in ValNames, u \in ValUrls,
        t \in ValTitles, o \in ValOuts, x \in ValExtras}

\* documents without a rules array, and values that are no document
ShapeDocs ==
    {Document(fv, at, RulesOther(k)) :
        fv \in ValVersions, at \in ValDates, k \in {"undef", "null", "object"}}
    \cup {Document(fv, at, RulesArray(<<>>)) : fv \in ValVersions, at \in ValDates}
    \cup {TopLevel(k) : k \in {"null", "number", "string", "bool", "array"}}

\* documents of up to two records with required fields missing and no usable
\* formatVersion
VersionlessDocs ==
    {Document(fv, ValidDate, RulesArray(rs)) :
        fv \in {Undef, Null, EmptyStr},
        rs \in SeqsUpTo({RuleMissing(m) : m \in SUBSET RequiredSet}, 2)}

ValidatorDocs ==
    MissingDocs \cup VariedDocs \cup ShapeDocs \cup SchemaDocs \cup VersionlessDocs

ValidatorInit ==
    /\ store = EmptyStore
    /\ clearPending = FALSE
    /\ pc = "idle"
    /\ file \in {JsonFile(d, 1024) : d \in ValidatorDocs}
    /\ mode = ""
    /\ result = NoResult
    /\ download = NoFile
    /\ storeAtCall = EmptyStore
    /\ issued = <<>>
    /\ existingIds = {}
    /\ idx = 0
    /\ curId = ""
    /\ importedCount = 0
    /\ importErrors = <<>>
    /\ idConflicts = <<>>
    /\ assigned = <<>>
    /\ saved = <<>>
    /\ origin = ""
    /\ exportedFrom = EmptyStore
    /\ disabled = FALSE
    /\ handlers = <<>>

\* ExportImport.validateExportFile(data): result holds what the call
\* returned, pc is "threw" when it raised instead
validate ==
    /\ pc = "idle"
    /\ result' = validateExportFile(file.data)
    /\ pc' = IF result'.threw THEN "threw" ELSE "validated"
    /\ UNCHANGED <<store, clearPending, file, mode, download, storeAtCall,
                   issued, existingIds, idx, curId, importedCount,
                   importErrors, idConflicts, assigned, saved, origin,
                   exportedFrom>>
    /\ UNCHANGED pageVars

ValidatorNext == validate

ValidatorSpec == ValidatorInit /\ [][ValidatorNext]_vars

(***************************************************************************)
(* The options page: the click handlers of the two import buttons.  An     *)
(* import call is followed from ExportImport.importRules(file, mode) to    *)
(* the moment its promise settles.                                         *)
(***************************************************************************)
MaxClicks == 3

\* one call of handleImport: its mode, where it stands, whether a file was
\* selected, what the user answered to the confirm dialog, and the calls it
\* has made so far
Handler(m, at) ==
    [mode |-> m, at |-> at, hasFile |-> TRUE, answer |-> "", calls |-> <<>>]

SetAt(h, at) == [handlers EXCEPT ![h].at = at]

\* the number of ExportImport.importRules calls that have not settled
InFlight ==
    Cardinality({h \in 1..Len(handlers) : handlers[h].at = "importing"})

GlueInit ==
    /\ store = EmptyStore
    /\ clearPending = FALSE
    /\ pc = "idle"
    /\ file = NoFile
    /\ mode = ""
    /\ result = NoResult
    /\ download = NoFile
    /\ storeAtCall = EmptyStore
    /\ issued = <<>>
    /\ existingIds = {}
    /\ idx = 0
    /\ curId = ""
    /\ importedCount = 0
    /\ importErrors = <<>>
    /\ idConflicts = <<>>
    /\ assigned = <<>>
    /\ saved = <<>>
    /\ origin = ""
    /\ exportedFrom = EmptyStore
    /\ disabled = FALSE
    /\ handlers = <<>>

\* a click on an import button that is not disabled: handleImport(mode) runs
\* to its first await.  Without a file it returns; in replace mode it awaits
\* getCurrentRulesCount; in merge mode it disables the buttons and calls
\* ExportImport.importRules
handleImport(m, hasFile) ==
    /\ ~disabled
    /\ Len(handlers) < MaxClicks
    /\ IF ~hasFile
       THEN /\ handlers' =
                 Append(handlers, [Handler(m, "done") EXCEPT !.hasFile = FALSE])
            /\ UNCHANGED disabled
       ELSE IF m = "replace"
       THEN /\ handlers' =
                 Append(handlers, [Handler(m, "counting") EXCEPT
                                      !.calls = <<"getCurrentRulesCount">>])
            /\ UNCHANGED disabled
       ELSE /\ handlers' =
                 Append(handlers, [Handler(m, "importing") EXCEPT
                                      !.calls = <<"importRules">>])
            /\ disabled' = TRUE
    /\ UNCHANGED coreVars

\* the handler after the confirm dialog was answered
Answered(h, at, answer, calls) ==
    [handlers EXCEPT ![h].at = at, ![h].answer = answer,
                     ![h].calls = handlers[h].calls \o calls]

\* faulty variant: the import goes ahead whatever the answer to the dialog
CountResolves_IgnoresAnswer(h, confirmed) ==
    /\ h \in 1..Len(handlers)
    /\ handlers[h].at = "counting"
    /\ handlers' = Answered(h, "importing",
                            IF confirmed THEN "ok" ELSE "cancel",
                            <<"confirm", "importRules">>)
    /\ disabled' = TRUE
    /\ UNCHANGED coreVars

\* getCurrentRulesCount resolves and the handler goes on: the confirm dialog,
\* then either the return or the buttons are disabled and
\* ExportImport.importRules is called
CountResolves(h, confirmed) ==
    /\ h \in 1..Len(handlers)
    /\ handlers[h].at = "counting"
    /\ IF confirmed
       THEN /\ handlers' = Answered(h, "importing", "ok",
                                    <<"confirm", "importRules">>)
            /\ disabled' = TRUE
       ELSE /\ handlers' = Answered(h, "done", "cancel", <<"confirm">>)
            /\ UNCHANGED disabled
    /\ UNCHANGED coreVars

\* the promise of ExportImport.importRules settles: the handler reports, on
\* success it sets the reload timer, and its finally enables the buttons
ImportSettles(h, success) ==
    /\ h \in 1..Len(handlers)
    /\ handlers[h].at = "importing"
    /\ handlers' = SetAt(h, IF success THEN "reloading" ELSE "done")
    /\ disabled' = FALSE
    /\ UNCHANGED coreVars

\* the 1500 ms timer of a successful import: location.reload(), the page and
\* its handlers start afresh
Reload ==
    /\ \E h \in 1..Len(handlers) : handlers[h].at = "reloading"
    /\ handlers' = <<>>
    /\ disabled' = FALSE
    /\ UNCHANGED coreVars

GlueNext ==
    \/ \E m \in {"replace", "merge"}, hasFile \in BOOLEAN : handleImport(m, hasFile)
    \/ \E h \in 1..MaxClicks, confirmed \in BOOLEAN : CountResolves(h, confirmed)
    \/ \E h \in 1..MaxClicks, success \in BOOLEAN : ImportSettles(h, success)
    \/ Reload

GlueSpec == GlueInit /\ [][GlueNext]_vars

(***************************************************************************)
(* The identifier resolution of the merge loop on its own, with the        *)
(* generator's outcome left open: rule_${Date.now()}_${Math.random()...}   *)
(* is whatever the clock and the random source give, and the code does not *)
(* look it up in existingIds.                                              *)
(***************************************************************************)
MaxResolved == 3

\* what the generator may return
GenPool == {GenName(1), GenName(2), GenName(3)}

\* the identifiers the incoming records carry: none, the empty string, "a",
\* and one that an earlier import generated
ResolverIds == {Undef, EmptyStr, IdVal("a"), IdVal(GenName(1))}
ResolverDocs ==
    {ValidDoc(rs) : rs \in SeqsUpTo({RuleP(id) : id \in ResolverIds}, MaxResolved)}
ResolverStores ==
    UNION {[S -> {Fields(RuleQ(Undef))}] : S \in SUBSET {"a", GenName(1)}}

ResolverInit ==
    /\ store \in ResolverStores
    /\ clearPending = FALSE
    /\ pc = "resolving"
    /\ file \in {JsonFile(d, 1024) : d \in ResolverDocs}
    /\ mode = "merge"
    /\ result = NoResult
    /\ download = NoFile
    /\ storeAtCall = store
    /\ issued = <<Op("get_all", "")>>
    /\ existingIds = DOMAIN store
    /\ idx = 0
    /\ curId = ""
    /\ importedCount = 0
    /\ importErrors = <<>>
    /\ idConflicts = <<>>
    /\ assigned = <<>>
    /\ saved = <<>>
    /\ origin = "picked"
    /\ exportedFrom = EmptyStore
    /\ disabled = TRUE
    /\ handlers = <<[Handler("merge", "importing") EXCEPT
                        !.calls = <<"importRules">>]>>

\* the identifier of record r when the generator returns g
RuleIdGiven(r, ids, g) ==
    IF Falsy(r.id) \/ IsConflict(r, ids) THEN g ELSE r.id.s

\* faulty variant: the identifier a record is given is not added to the set
ResolveNext_NoAdd(g) ==
    /\ pc = "resolving"
    /\ idx < Len(Rules)
    /\ LET i == idx + 1
           r == Rules[i]
           ruleId == RuleIdGiven(r, existingIds, g)
       IN /\ idx' = i
          /\ curId' = ruleId
          /\ idConflicts' =
               IF IsConflict(r, existingIds)
               THEN Append(idConflicts, ConflictNote(i, r, r.id.s, ruleId))
               ELSE idConflicts
          /\ existingIds' = existingIds
          /\ assigned' = Append(assigned, ruleId)
    /\ UNCHANGED <<store, clearPending, pc, file, mode, result, download,
                   storeAtCall, issued, importedCount, importErrors, saved,
                   origin, exportedFrom>>
    /\ UNCHANGED pageVars

\* one pass of the loop from let ruleId = ruleData.id to
\* existingIds.add(ruleId), the generator returning g
ResolveNext(g) ==
    /\ pc = "resolving"
    /\ idx < Len(Rules)
    /\ LET i == idx + 1
           r == Rules[i]
           ruleId == RuleIdGiven(r, existingIds, g)
       IN /\ idx' = i
          /\ curId' = ruleId
          /\ idConflicts' =
               IF IsConflict(r, existingIds)
               THEN Append(idConflicts, ConflictNote(i, r, r.id.s, ruleId))
               ELSE idConflicts
          /\ existingIds' = existingIds \cup {ruleId}
          /\ assigned' = Append(assigned, ruleId)
    /\ UNCHANGED <<store, clearPending, pc, file, mode, result, download,
                   storeAtCall, issued, importedCount, importErrors, saved,
                   origin, exportedFrom>>
    /\ UNCHANGED pageVars

ResolverNext == \E g \in GenPool : ResolveNext(g)

ResolverSpec == ResolverInit /\ [][ResolverNext]_vars

(***************************************************************************)
(* Properties.                                                             *)
(***************************************************************************)
\* the call mutated nothing: no clear and no write was issued, and a read
\* gives what it gave when the call was made
NothingWritten ==
    /\ \A i \in 1..Len(issued) : issued[i].op \notin {"remove_all", "save"}
    /\ Persisted = storeAtCall

AllSaved == \A i \in 1..Len(saved) : saved[i]

\* C1: an import call (replace or merge) that fails at the size gate, the
\* parse gate, the schema gate or the quota gate has issued no remove_all
\* and no save, and the persisted store equals the store before the call.
C1_GateFailureWritesNothing ==
    (pc = "rejected" /\ result.gate \in {"size", "parse", "schema", "quota"})
        => NothingWritten

\* a merge import of a non-empty store that the quota gate rejected, after
\* Config.get_all was issued
C1_Witness ==
    /\ pc = "rejected"
    /\ result.gate = "quota"
    /\ mode = "merge"
    /\ storeAtCall # EmptyStore
    /\ issued # <<>>

\* no record of the document carries an identifier that is a key of the store
NoCollision ==
    \A i \in 1..Len(Rules) : Rules[i].id.s \notin DOMAIN storeAtCall

Collides(i) ==
    ~Falsy(Rules[i].id) /\ Rules[i].id.s \in DOMAIN storeAtCall

\* the rule stored under X is untouched, record i went under a generated
\* identifier other than X, and the warnings hold the conflict note
ConflictResolved(i) ==
    LET X == Rules[i].id.s
        n == assigned[i]
    IN /\ X \in DOMAIN Persisted
       /\ Persisted[X] = storeAtCall[X]
       /\ n # X
       /\ n \in GenIds
       /\ \E j \in 1..Len(result.warnings) :
              result.warnings[j] = ConflictNote(i, Rules[i], X, n)
\* record i is in the store under the identifier it was given
StoredUnderAssigned(i) ==
    /\ assigned[i] \in DOMAIN Persisted
    /\ Persisted[assigned[i]] = Fields(Rules[i])

ReimportOfExport == origin = "download" /\ mode = "replace"

\* C5: round trip: the document exportRules builds from a stored rule set R
\* passes validateExportFile; a replace import of that document is refused
\* only by a read failure or, when its rules serialize to more than
\* QUOTA_LIMIT characters, by the quota gate; and when it resolves with
\* every save succeeding the store equals R.
C5_RoundTrip ==
    /\ pc \in {"downloading", "exported"}
         => /\ validateExportFile(download.data).valid
            /\ download.data.rules.items = ExportedRules(exportedFrom)
    /\ (ReimportOfExport /\ pc = "rejected")
         => \/ result.gate = "read"
            \/ result.gate = "quota" /\ RulesSize(Rules) > QUOTA_LIMIT
    /\ (ReimportOfExport /\ pc = "resolved" /\ AllSaved)
         => Persisted = exportedFrom

\* the export of two rules was imported back into a store that had been
\* emptied in between
C5_Witness ==
    /\ ReimportOfExport
    /\ pc = "resolved"
    /\ AllSaved
    /\ Cardinality(DOMAIN exportedFrom) = 2
    /\ storeAtCall = EmptyStore

\* C5 as stated: whenever the replace import of the exported document has
\* ended, the store equals R.
C5_AsStated ==
    (ReimportOfExport /\ pc \in {"resolved", "rejected"})
        => Persisted = exportedFrom

\* the second of two successive replace imports of one document
SecondImport == origin = "again" /\ pc = "resolved" /\ AllSaved

\* the field values a store holds, whatever the identifiers
StoredFields(items) == {items[k] : k \in DOMAIN items}

EmptyDoc ==
    /\ file.text = "json"
    /\ file.data.top = "object"
    /\ file.data.formatVersion = Version10
    /\ file.data.rules.kind = "array"
    /\ file.data.rules.items = <<>>

\* C7: a document with formatVersion "1.0" and an empty rules array is
\* valid; its import is refused only by a read failure or, in merge mode, by
\* a failing Config.get_all or by the quota gate when the size of the store
\* plus 2 exceeds QUOTA_LIMIT; otherwise it resolves with importedCount = 0
\* and success = true.
C7_EmptyDocument ==
    (EmptyDoc /\ mode \in {"replace", "merge"} /\ pc \in {"resolved", "rejected"})
        => /\ validateExportFile(file.data).valid
           /\ pc = "resolved"
                => /\ result.success
                   /\ result.importedCount = 0
                   /\ result.errors = <<>>
           /\ pc = "rejected"
                => \/ result.gate = "read"
                   \/ mode = "merge" /\ result.gate = "getall"
                   \/ /\ mode = "merge"
                      /\ result.gate = "quota"
                      /\ ItemsSize(storeAtCall) + 2 > QUOTA_LIMIT
           /\ (mode = "merge" /\ ItemsSize(storeAtCall) + 2 <= QUOTA_LIMIT)
                => result.gate # "quota"

\* an empty document merged into a store whose size plus 2 is QUOTA_LIMIT
C7_Witness ==
    /\ EmptyDoc
    /\ mode = "merge"
    /\ pc = "resolved"
    /\ ItemsSize(storeAtCall) + 2 = QUOTA_LIMIT

\* C7 as stated: for every state of the store, the import of the empty
\* document whose file was read passes every gate in both modes.
C7_AsStated ==
    (EmptyDoc /\ mode \in {"replace", "merge"} /\ pc \in {"resolved", "rejected"}
        /\ result.gate \notin {"read", "getall"})
        => pc = "resolved" /\ result.success /\ result.importedCount = 0

\* C8: a replace import of a valid document with an empty rules array,
\* against any store, leaves zero rules once it has resolved: every read of
\* the store from then on finds it empty.
C8_EmptyReplaceClears ==
    (mode = "replace" /\ pc = "resolved" /\ Rules = <<>>)
        => Persisted = EmptyStore

\* an empty document replaced a store of two rules
C8_Witness ==
    /\ mode = "replace"
    /\ pc = "resolved"
    /\ Rules = <<>>
    /\ Cardinality(DOMAIN storeAtCall) = 2

\* the replace import is past the schema gate: the file was read and held a
\* valid document
PastSchemaGate ==
    /\ pc \in {"delay", "saving", "resolved", "rejected"}
    /\ pc = "rejected" => result.gate \notin {"size", "read", "parse", "exception", "schema"}

\* the commit phase of a replace import: the clear was issued first
InReplaceCommit ==
    /\ pc \in {"delay", "saving", "resolved"}
    /\ issued # <<>>
    /\ issued[1] = Op("remove_all", "")

\* C9: replace-mode quota: a valid document reaches the commit phase if and
\* only if its rules serialize to at most QUOTA_LIMIT characters; a larger
\* one is rejected with an error that reports its size and the limit, and
\* neither the clear nor a write is issued, whatever the store holds.
C9_ReplaceQuota ==
    (mode = "replace" /\ PastSchemaGate)
        => IF RulesSize(Rules) <= QUOTA_LIMIT
           THEN InReplaceCommit
           ELSE /\ pc = "rejected"
                /\ result.gate = "quota"
                /\ result.sizes = <<RulesSize(Rules), QUOTA_LIMIT>>
                /\ NothingWritten

\* a document one character over the limit was refused, the store near the
\* limit itself
C9_Witness ==
    /\ mode = "replace"
    /\ pc = "rejected"
    /\ result.gate = "quota"
    /\ RulesSize(Rules) = QUOTA_LIMIT + 1
    /\ ItemsSize(storeAtCall) >= QUOTA_LIMIT - 2

\* the merge import is past Config.get_all
PastGetAll ==
    \/ pc \in {"saving", "resolved"}
    \/ pc = "rejected" /\ result.gate = "quota"

CombinedSize == ItemsSize(storeAtCall) + RulesSize(Rules)

\* C10: merge-mode quota: a valid document is written only if the size of
\* the store plus the size of the incoming rules is at most QUOTA_LIMIT;
\* when the sum exceeds it the import is rejected with no write, and the
\* error reports the sum, the limit, the current size and the import size.
C10_MergeQuota ==
    (mode = "merge" /\ PastGetAll)
        => IF CombinedSize <= QUOTA_LIMIT
           THEN pc \in {"saving", "resolved"}
           ELSE /\ pc = "rejected"
                /\ result.gate = "quota"
                /\ result.sizes = <<CombinedSize, QUOTA_LIMIT,
                                    ItemsSize(storeAtCall), RulesSize(Rules)>>
                /\ NothingWritten

\* a document under the limit on its own was refused for a store of one
\* small rule
C10_Witness ==
    /\ mode = "merge"
    /\ pc = "rejected"
    /\ result.gate = "quota"
    /\ RulesSize(Rules) < QUOTA_LIMIT
    /\ Rules # <<>>
    /\ Cardinality(DOMAIN storeAtCall) = 1

\* the saves of the call that reported success, and those that failed
SavedOk == {i \in 1..Len(saved) : saved[i]}
SaveFailed == {i \in 1..Len(saved) : ~saved[i]}

\* C11 as stated: an import that fails schema validation, exceeds the quota
\* or has a failing save ends with its promise resolved with a result whose
\* success is false and whose errors list is non-empty.
C11_AsStated ==
    (/\ pc \in {"resolved", "rejected"}
     /\ mode \in {"replace", "merge"}
     /\ \/ result.gate \in {"schema", "quota"}
        \/ SaveFailed # {})
        => /\ result.kind = "resolved"
           /\ ~result.success
           /\ result.errors # <<>>

\* C12: result assembly: in every resolved result of either mode,
\* importedCount is the number of records whose save reported success,
\* errors has one entry per record whose save failed, in input order,
\* importedCount + |errors| is the number of records of the document, and
\* success is true exactly when errors is empty.
C12_ResultAssembly ==
    pc = "resolved"
        => /\ result.kind = "resolved"
           /\ Len(saved) = Len(Rules)
           /\ result.importedCount = Cardinality(SavedOk)
           /\ Len(result.errors) = Cardinality(SaveFailed)
           /\ \A j \in 1..Len(result.errors) :
                  /\ result.errors[j].kind = "save_failed"
                  /\ result.errors[j].rule \in SaveFailed
                  /\ \A h \in 1..(j - 1) :
                         result.errors[h].rule < result.errors[j].rule
           /\ result.importedCount + Len(result.errors) = Len(Rules)
           /\ result.success <=> result.errors = <<>>

\* a resolved import of two records, the first save failed, the second
\* succeeded
C12_Witness ==
    /\ pc = "resolved"
    /\ Len(Rules) = 2
    /\ saved = <<FALSE, TRUE>>
    /\ result.importedCount = 1

\* the messages of q that satisfy nothing but the given kind, record and field
Count(q, kind, i, field) ==
    Cardinality({j \in 1..Len(q) : /\ q[j].kind = kind
                                   /\ q[j].rule = i
                                   /\ q[j].field = field})

\* the document without what gives rise to warnings: no unknown field on
\* any record, a well-formed exportedAt
WithoutWarnings(d) ==
    [d EXCEPT !.exportedAt = ValidDate,
              !.rules.items = [i \in DOMAIN @ |-> [@[i] EXCEPT !.extra = <<>>]]]

\* C13: for every input the validator returns a result for, valid is true if
\* and only if errors is empty; warnings never make valid false: the same
\* document without its unknown fields and with a proper exportedAt has the
\* same valid and the same errors.
C13_ValidIffNoErrors ==
    pc = "validated"
        => /\ result.valid <=> result.errors = <<>>
           /\ validateExportFile(WithoutWarnings(file.data)).valid = result.valid
           /\ validateExportFile(WithoutWarnings(file.data)).errors = result.errors
           /\ validateExportFile(WithoutWarnings(file.data)).warnings = <<>>

\* a valid result with three warnings: two unknown fields and the date
C13_Witness ==
    /\ pc = "validated"
    /\ result.valid
    /\ Len(result.warnings) = 3

\* the value counts as a missing required field
AbsentNullOrEmpty(v) == v.t \in {"undef", "null"} \/ v = EmptyStr

MissingPairs(rs) ==
    {<<i, f>> \in (1..Len(rs)) \X RequiredSet : AbsentNullOrEmpty(FieldOf(rs[i], f))}

\* C14: validation is exhaustive and per-record independent: for a document
\* whose rules is an array of objects, errors holds exactly one 'missing
\* required field' error for every (record, required field) pair whose value
\* is absent, null or empty, and none for any other pair, whatever errors
\* earlier records have; a document with a supported version whose records
\* lack nothing else has exactly as many errors as such pairs.
C14_ExhaustiveValidation ==
    (pc = "validated" /\ file.data.top = "object" /\ file.data.rules.kind = "array")
        => /\ \A i \in 1..Len(Rules), f \in RequiredSet :
                  Count(result.errors, "missing_field", i, f)
                      = IF <<i, f>> \in MissingPairs(Rules) THEN 1 ELSE 0
           /\ file.data \in MissingDocs
                  => Len(result.errors) = Cardinality(MissingPairs(Rules))

\* three records, each missing a different required field: three errors
C14_Witness ==
    /\ pc = "validated"
    /\ file.data \in MissingDocs
    /\ Len(Rules) = 3
    /\ \A i \in 1..3 : \E f \in RequiredSet : MissingPairs(<<Rules[i]>>) = {<<1, f>>}
    /\ Cardinality({f \in RequiredSet : \E i \in 1..3 : <<i, f>> \in MissingPairs(Rules)}) = 3
    /\ Len(result.errors) = 3

\* the formatVersion values the validator reports as missing
ReportedMissing(v) ==
    \/ v.t \in {"undef", "null"}
    \/ v = EmptyStr
    \/ v = Num("0")
    \/ v = Bool("false")

WithoutUnknown(d) ==
    [d EXCEPT !.rules.items = [i \in DOMAIN @ |-> [@[i] EXCEPT !.extra = <<>>]]]

\* the import call holds a document whose rules is an array of objects
ArrayOfObjects ==
    /\ file.text = "json"
    /\ file.data.top = "object"
    /\ file.data.rules.kind = "array"
    /\ ~Throws(file.data)

UnknownFields(r) == {r.extra[k] : k \in 1..Len(r.extra)}

\* the document is complete but for the unknown fields some record carries
CompleteWithUnknown ==
    /\ ArrayOfObjects
    /\ validateExportFile(WithoutUnknown(file.data)).valid
    /\ \E i \in 1..Len(Rules) : Rules[i].extra # <<>>

\* C15: an unrecognized field on a record gives exactly one warning for
\* that record and field and no error; a document of otherwise complete
\* records that carry unknown fields is valid with a non-empty warnings
\* list, its import is not refused at the schema gate, and in replace mode
\* it enters the commit phase if and only if its rules, unknown fields
\* included, serialize to at most QUOTA_LIMIT characters; the warnings are
\* in the resolved result.
C15_UnknownFieldWarns ==
    (ArrayOfObjects /\ mode \in {"replace", "merge"})
        => LET v == validateExportFile(file.data)
           IN /\ \A i \in 1..Len(Rules) :
                     /\ \A x \in UnknownFields(Rules[i]) :
                            Count(v.warnings, "unknown_field", i, x) = 1
                     /\ Cardinality({j \in 1..Len(v.warnings) :
                                        /\ v.warnings[j].kind = "unknown_field"
                                        /\ v.warnings[j].rule = i})
                            = Len(Rules[i].extra)
              /\ v.errors = validateExportFile(WithoutUnknown(file.data)).errors
              /\ CompleteWithUnknown
                   => /\ v.valid
                      /\ v.warnings # <<>>
                      /\ pc = "rejected" => result.gate \in {"read", "getall", "quota"}
                      /\ (mode = "replace" /\ pc # "reading" /\ result.gate # "read")
                             => (InReplaceCommit <=> RulesSize(Rules) <= QUOTA_LIMIT)
                      /\ pc = "resolved"
                             => SubSeq(result.warnings, 1, Len(v.warnings)) = v.warnings

\* a replace import of two records carrying three unknown fields between
\* them resolved with both records saved and three warnings
C15_Witness ==
    /\ CompleteWithUnknown
    /\ mode = "replace"
    /\ pc = "resolved"
    /\ result.importedCount = 2
    /\ Len(result.warnings) = 3

\* C15 as stated: the import of every document of otherwise complete
\* records with unknown fields, once read, proceeds to commit (replace mode).
C15_AsStated ==
    (CompleteWithUnknown /\ mode = "replace" /\ pc # "reading"
        /\ result.gate # "read")
        => InReplaceCommit

\* the import call was given a mode that is neither "replace" nor "merge"
UnknownMode == mode \notin {"", "replace", "merge"}

\* the gate that ends an import call whose file was read, in the order the
\* code runs them up to the dispatch on the mode
FirstFailingGate ==
    IF file.size > MAX_FILE_SIZE THEN "size"
    ELSE IF file.text # "json" THEN "parse"
    ELSE IF validateExportFile(file.data).threw THEN "exception"
    ELSE IF ~validateExportFile(file.data).valid THEN "schema"
    ELSE "mode"

\* C17: an import call whose mode is neither "replace" nor "merge" issues no
\* storage operation and is always rejected; the rejection is the
\* unknown-mode error exactly when the file passes the size gate, is read,
\* parses and validates; otherwise it is the error of the first of those
\* gates that fails.
C17_UnknownMode ==
    UnknownMode
        => /\ pc \in {"reading", "rejected"}
           /\ issued = <<>>
           /\ Persisted = storeAtCall
           /\ pc = "rejected"
                => /\ result.kind = "rejected"
                   /\ result.gate \in {"read", FirstFailingGate}
                   /\ file.size > MAX_FILE_SIZE => result.gate = "size"

\* the unknown-mode error, for a valid document
C17_Witness ==
    /\ UnknownMode
    /\ pc = "rejected"
    /\ result.gate = "mode"
    /\ validateExportFile(file.data).valid
    /\ Rules # <<>>

\* C17 as stated: whatever the file, the call with an unknown mode ends with
\* the unknown-mode error.
C17_AsStated ==
    (UnknownMode /\ pc = "rejected" /\ result.gate # "read")
        => result.gate = "mode" /\ issued = <<>>

\* an export call is in flight
Exporting == pc \in {"exporting", "downloading"}

\* C18: exportRules never changes the persisted rules: from the call to its
\* end, successful or failed, every step leaves them as they were, and the
\* only storage operation the call issues is one get_all.
C18_ExportReadOnly ==
    [][(pc' = "exporting" \/ Exporting)
          => /\ Persisted' = Persisted
             /\ issued' = <<Op("get_all", "")>>
             /\ pc' \in {"exporting", "downloading", "exported", "exportFailed"}]_vars

\* an export of a non-empty store has ended and the store is what it read
C18_Witness ==
    /\ pc = "exported"
    /\ exportedFrom # EmptyStore
    /\ Persisted = exportedFrom
    /\ download = ExportedFile(exportedFrom)
    /\ issued = <<Op("get_all", "")>>

\* C19 as stated: the options page serializes imports; whatever the clicks on
\* the two import buttons, at most one ExportImport.importRules call is in
\* flight.
C19_AsStated == InFlight <= 1

\* the replace import in flight has issued a save
SaveIssued == \E i \in 1..Len(issued) : issued[i].op = "save"

\* C20 as stated: in replace mode the clear has taken effect before the
\* first record write is issued, however the fire-and-forget remove_all and
\* the saves interleave.
C20_AsStated == (mode = "replace" /\ SaveIssued) => ~clearPending

\* the saves the call in flight has issued, in the order of their issue
IsSave(o) == o.op = "save"
SaveOps == SelectSeq(issued, IsSave)

\* C21: during the commit phase of either mode the saves are issued one at a
\* time in the input order of the records: the save of record i + 1 is issued
\* only once the callback of the save of record i has fired, so at most one
\* save is outstanding, and that exactly while the loop awaits it.
C21_SequentialSaves ==
    /\ Len(SaveOps) - Len(saved) = (IF pc = "saving" THEN 1 ELSE 0)
    /\ Len(SaveOps) = Len(assigned)
    /\ \A i \in 1..Len(SaveOps) : SaveOps[i].id = assigned[i]
    /\ pc = "saving"
         => /\ mode \in {"replace", "merge"}
            /\ idx = Len(SaveOps)
            /\ idx <= Len(Rules)
            /\ curId = assigned[idx]
    /\ pc = "resolved" => Len(SaveOps) = Len(Rules)

\* the save of the second record is outstanding, the first one has reported
C21_Witness ==
    /\ pc = "saving"
    /\ mode = "merge"
    /\ idx = 2
    /\ Len(saved) = 1
    /\ Len(SaveOps) = 2

\* the messages of the failed saves among the first k, in input order
RECURSIVE FailureMessages(_)
FailureMessages(k) ==
    IF k = 0 THEN <<>>
    ELSE FailureMessages(k - 1)
         \o (IF saved[k] THEN <<>>
             ELSE <<Msg("save_failed", k, "", Rules[k])>>)

\* the last record saved with success under the identifier of record i
LastSavedAs(i) ==
    CHOOSE j \in SavedOk :
        /\ assigned[j] = assigned[i]
        /\ \A h \in SavedOk : assigned[h] = assigned[i] => h <= j

\* C22: a failing save does not abort the batch: every later record is still
\* attempted, the records saved before (and after) the failure are in the
\* store when the call resolves, and the messages of the failures make up the
\* result's errors in input order.
C22_FailureDoesNotAbort ==
    /\ saved # <<>> => pc \in {"saving", "resolved"}
    /\ pc = "saving" => importErrors = FailureMessages(Len(saved))
    /\ pc = "resolved"
         => /\ Len(saved) = Len(Rules)
            /\ result.kind = "resolved"
            /\ result.errors = FailureMessages(Len(Rules))
            /\ \A i \in SavedOk :
                   /\ assigned[i] \in DOMAIN Persisted
                   /\ Persisted[assigned[i]] = Fields(Rules[LastSavedAs(i)])

\* the first record was saved, the save of the second failed, and the first
\* is in the store
C22_Witness ==
    /\ pc = "resolved"
    /\ saved = <<TRUE, FALSE>>
    /\ assigned[1] \in DOMAIN Persisted
    /\ Len(result.errors) = 1
    /\ result.errors[1].rule = 2

\* the gates an import of the file in hand fails, whether or not they run
FailsSize == file.size > MAX_FILE_SIZE
FailsParse == file.text # "json"
FailsSchema ==
    file.text = "json"
    /\ (validateExportFile(file.data).threw \/ ~validateExportFile(file.data).valid)
FailsQuota ==
    file.text = "json" /\ file.data.rules.kind = "array"
    /\ ~Throws(file.data)
    /\ RulesSize(Rules) + (IF mode = "merge" THEN ItemsSize(storeAtCall) ELSE 0)
         > QUOTA_LIMIT

\* C23: the gates run in the order size, parse, schema, quota and stop at the
\* first that fails: an oversized file is rejected by the size gate without
\* being read; a file that is read and does not parse is rejected by the parse
\* gate with no validator error; an invalid document is rejected by the
\* schema gate before any size is computed or any storage operation issued;
\* the quota gate and the commit phase are reached only by a file that passed
\* the three gates before.
C23_GateOrder ==
    mode \in {"replace", "merge"}
        => /\ FailsSize
                => /\ pc = "rejected"
                   /\ result = Rejected("size", <<>>, <<>>)
                   /\ issued = <<>>
           /\ (~FailsSize /\ FailsParse)
                => /\ pc \in {"reading", "rejected"}
                   /\ pc = "rejected" => result.gate \in {"read", "parse"}
                   /\ result.errors = <<>>
                   /\ issued = <<>>
           /\ (~FailsSize /\ ~FailsParse /\ FailsSchema)
                => /\ pc \in {"reading", "rejected"}
                   /\ pc = "rejected"
                        => result.gate \in {"read", "schema", "exception"}
                   /\ result.sizes = <<>>
                   /\ issued = <<>>
           /\ (pc = "rejected" /\ result.gate \in {"quota", "getall"})
                => ~FailsSize /\ ~FailsParse /\ ~FailsSchema
           /\ pc \in {"delay", "getall", "saving", "resolved"}
                => ~FailsSize /\ ~FailsParse /\ ~FailsSchema

\* a file that would fail the schema gate and the quota gate is rejected with
\* the validator's errors
C23_Witness ==
    /\ mode = "replace"
    /\ pc = "rejected"
    /\ ~FailsSize
    /\ FailsSchema
    /\ FailsQuota
    /\ result.gate = "schema"
    /\ result.errors # <<>>

\* the import was rejected at the schema gate
SchemaRejected == pc = "rejected" /\ result.gate = "schema"

UniqueId(i) ==
    /\ assigned[i] \notin DOMAIN storeAtCall
    /\ \A j \in 1..(i - 1) : assigned[j] # assigned[i]

\* record i was given a generated identifier: it carried none, or a conflict
\* note was written for it
NotedConflict(i) ==
    \E k \in 1..Len(idConflicts) : idConflicts[k].rule = i
Generated(i) == Falsy(Rules[i].id) \/ NotedConflict(i)

TakenBefore(i) ==
    DOMAIN storeAtCall \cup {assigned[j] : j \in 1..(i - 1)}

\* C26: identifier retention: a record whose id is a non-empty string is
\* saved under that id in replace mode, and in merge mode whenever the id is
\* not in the existing set; a record whose id is absent or empty is saved
\* under a generated identifier in both modes, and no conflict note is
\* written for it.
C26_IdRetention ==
    (mode \in {"replace", "merge"} /\ pc \in {"saving", "resolved"})
        => \A i \in 1..Len(assigned) :
               /\ (~Falsy(Rules[i].id) /\ mode = "replace")
                      => assigned[i] = Rules[i].id.s
               /\ (~Falsy(Rules[i].id) /\ mode = "merge"
                     /\ Rules[i].id.s \notin TakenBefore(i))
                      => assigned[i] = Rules[i].id.s
               /\ Falsy(Rules[i].id)
                      => /\ assigned[i] \in GenIds
                         /\ ~NotedConflict(i)
                         /\ pc = "resolved"
                              => \A k \in 1..Len(result.warnings) :
                                     ~(/\ result.warnings[k].kind = "id_conflict"
                                       /\ result.warnings[k].rule = i)
               /\ issued[Len(issued) - Len(assigned) + i] = Op("save", assigned[i])

\* a resolved merge of a record without id and a record that keeps its id
C26_Witness ==
    /\ pc = "resolved"
    /\ mode = "merge"
    /\ Len(Rules) = 2
    /\ Falsy(Rules[1].id)
    /\ assigned[1] \in GenIds
    /\ ~Falsy(Rules[2].id)
    /\ assigned[2] = Rules[2].id.s
    /\ storeAtCall # EmptyStore
    /\ idConflicts = <<>>

\* record i carried an identifier that was taken and was given another
Regenerated(i) ==
    /\ ~Falsy(Rules[i].id)
    /\ Rules[i].id.s \in TakenBefore(i)
    /\ assigned[i] # Rules[i].id.s

\* the conflict notes of the first k records, in input order
RECURSIVE ConflictNotes(_)
ConflictNotes(k) ==
    IF k = 0 THEN <<>>
    ELSE ConflictNotes(k - 1)
         \o (IF Regenerated(k)
             THEN <<ConflictNote(k, Rules[k], Rules[k].id.s, assigned[k])>>
             ELSE <<>>)

\* C27: the warnings of a resolved result are the validator's warnings
\* followed, in merge mode, by the conflict notes in input order, and the
\* validator's warnings alone in replace mode; there is one conflict note for
\* each record whose identifier was regenerated because it was taken.
C27_ResultWarnings ==
    (pc = "resolved" /\ mode \in {"replace", "merge"})
        => /\ mode = "replace"
                => result.warnings = validateExportFile(file.data).warnings
           /\ mode = "merge"
                => /\ result.warnings
                        = validateExportFile(file.data).warnings
                          \o ConflictNotes(Len(Rules))
                   /\ Len(idConflicts)
                        = Cardinality({i \in 1..Len(Rules) : Regenerated(i)})
                   /\ Len(result.warnings)
                        = Len(validateExportFile(file.data).warnings)
                          + Len(idConflicts)

\* a resolved merge whose warnings hold a validator warning and then a
\* conflict note
C27_Witness ==
    /\ pc = "resolved"
    /\ mode = "merge"
    /\ validateExportFile(file.data).warnings # <<>>
    /\ idConflicts # <<>>
    /\ result.warnings[1].kind = "unknown_field"
    /\ result.warnings[Len(result.warnings)].kind = "id_conflict"

\* C28 as stated: for every top-level value that is no JSON object (null, a
\* number, a string, a boolean, an array) validateExportFile returns valid
\* false with the single error of the top-level check and no warnings, the
\* formatVersion and rules checks not being made.
C28_AsStated ==
    (pc = "validated" /\ file.data.top # "object")
        => result = ValidationResult(FALSE, <<DocMsg("not_object")>>, <<>>, FALSE)

\* C29 as stated: validateExportFile is total: whatever the parsed value, a
\* rules array with null elements included, the call returns a result and
\* raises no exception.
C29_AsStated == pc # "idle" => (pc = "validated" /\ ~result.threw)

\* the place of an error in the validator's order: the record it is about
\* (0: the document), then the check that reports it, then the field
FieldPos(f) ==
    IF \E k \in 1..Len(requiredFields) : requiredFields[k] = f
    THEN CHOOSE k \in 1..Len(requiredFields) : requiredFields[k] = f
    ELSE 0
CheckRank(m) ==
    CASE m.kind = "not_object" -> 0
      [] m.kind \in {"missing_formatVersion", "unsupported_formatVersion"} -> 10
      [] m.kind \in {"missing_rules", "rules_not_array"} -> 20
      [] m.kind = "missing_field" -> 10 + FieldPos(m.field)
      [] m.kind = "name_too_long" -> 20
      [] m.kind = "invalid_regex" -> 30 + FieldPos(m.field)
      [] OTHER -> 99
ErrorKey(m) == 100 * m.rule + CheckRank(m)

\* C30: the errors returned by validateExportFile are ordered with the
\* document-level entries first (formatVersion, then rules), followed by the
\* per-record entries in the input order of the records, each record's in the
\* order required fields, name length, url_pattern, title_pattern.  The
\* warnings are the per-record entries in input order followed by the
\* document-level exportedAt warning, which comes last.
C30_DiagnosticOrder ==
    pc = "validated"
        => /\ \A j, k \in 1..Len(result.errors) :
                  j < k => ErrorKey(result.errors[j]) < ErrorKey(result.errors[k])
           /\ \A j, k \in 1..Len(result.warnings) :
                  j < k => /\ result.warnings[j].kind = "unknown_field"
                           /\ result.warnings[j].rule >= 1
                           /\ result.warnings[k].kind = "unknown_field"
                                => result.warnings[j].rule <= result.warnings[k].rule
           /\ \A k \in 1..Len(result.warnings) :
                  result.warnings[k].kind \in {"unknown_field", "invalid_exportedAt"}

\* a document with a formatVersion error, errors of all four checks on its
\* record, an unknown field and an exportedAt that is no date
C30_Witness ==
    /\ pc = "validated"
    /\ Len(result.errors) >= 4
    /\ result.errors[1].kind = "unsupported_formatVersion"
    /\ \E k \in 1..Len(result.errors) : result.errors[k].kind = "missing_field"
    /\ \E k \in 1..Len(result.errors) : result.errors[k].kind = "name_too_long"
    /\ \E k \in 1..Len(result.errors) : result.errors[k].kind = "invalid_regex"
    /\ Len(result.warnings) >= 2
    /\ result.warnings[1].kind = "unknown_field"
    /\ result.warnings[Len(result.warnings)].kind = "invalid_exportedAt"

\* C30 as stated: in the errors and in the warnings alike the document-level
\* entries come before the per-record entries.
C30_AsStated ==
    pc = "validated"
        => /\ \A j, k \in 1..Len(result.errors) :
                  (j < k /\ result.errors[k].rule = 0) => result.errors[j].rule = 0
           /\ \A j, k \in 1..Len(result.warnings) :
                  (j < k /\ result.warnings[k].rule = 0)
                      => result.warnings[j].rule = 0

\* the document in hand with formatVersion "1.0"
WithVersion10 == [file.data EXCEPT !.formatVersion = Version10]

RulesErrorKinds == {"missing_rules", "rules_not_array"}

\* C31: a missing formatVersion does not stop validation: the rules field and
\* every record are checked as they would be with the version present, and
\* their errors follow the formatVersion error; when rules is missing or is no
\* array, one error is added for rules, and nothing is reported about records.
C31_VersionDoesNotStop ==
    (pc = "validated" /\ file.data.top = "object")
        => /\ Falsy(file.data.formatVersion)
                => /\ result.errors # <<>>
                   /\ result.errors[1] = DocMsg("missing_formatVersion")
                   /\ Tail(result.errors) = validateExportFile(WithVersion10).errors
                   /\ result.warnings = validateExportFile(WithVersion10).warnings
           /\ file.data.rules.kind # "array"
                => /\ ~result.valid
                   /\ Cardinality({k \in 1..Len(result.errors) :
                                     result.errors[k].kind \in RulesErrorKinds}) = 1
                   /\ result.errors[Len(result.errors)].kind \in RulesErrorKinds
                   /\ \A k \in 1..Len(result.errors) : result.errors[k].rule = 0
                   /\ Len(result.errors) = Len(FormatVersionErrors(file.data)) + 1
                   /\ result.warnings = <<>>

\* formatVersion is missing and the two records of the document are reported
C31_Witness ==
    /\ pc = "validated"
    /\ file.data.top = "object"
    /\ file.data.formatVersion = Undef
    /\ result.errors[1] = DocMsg("missing_formatVersion")
    /\ \E k \in 1..Len(result.errors) : result.errors[k].rule = 1
    /\ \E k \in 1..Len(result.errors) : result.errors[k].rule = 2

\* a required field of record r is present and is no string
NonStringRequired(r) ==
    \E f \in RequiredSet : FieldOf(r, f).t \notin {"undef", "null", "str"}

\* C32 as stated: the validator reports an error for every record with a
\* required field that is present and no string, so no such record reaches
\* the commit phase.
C32_AsStated ==
    (mode \in {"replace", "merge"} /\ pc \in {"delay", "saving", "resolved"})
        => \A i \in 1..Len(Rules) : ~NonStringRequired(Rules[i])

\* C33: a replace import that has entered the commit phase does not roll
\* back: the rules of before the import are gone and are not restored, the
\* store holds the incoming records whose save succeeded and nothing else
\* (nothing at all if every save failed), and a failed save makes the result's
\* success false.
C33_NoRollback ==
    /\ (mode = "replace" /\ pc \in {"delay", "saving", "resolved"})
         => /\ DOMAIN Persisted = {assigned[i] : i \in SavedOk}
            /\ \A i \in SavedOk :
                   Persisted[assigned[i]] = Fields(Rules[LastSavedAs(i)])
    /\ (mode = "replace" /\ pc = "resolved")
         => /\ SaveFailed # {} => ~result.success /\ result.kind = "resolved"
            /\ SavedOk = {} => Persisted = EmptyStore

\* the store held rules, the save of every incoming record failed: the store
\* is empty and the result reports the failure
C33_Witness ==
    /\ mode = "replace"
    /\ pc = "resolved"
    /\ storeAtCall # EmptyStore
    /\ Len(Rules) = 2
    /\ saved = <<FALSE, FALSE>>
    /\ Persisted = EmptyStore
    /\ ~result.success

\* the handlers that returned because no file was selected or because the
\* user declined the confirmation
NotStarted ==
    {h \in 1..Len(handlers) :
        ~handlers[h].hasFile \/ handlers[h].answer = "cancel"}

\* C34: a handleImport call that finds no file selected, or whose replace
\* confirmation the user declines, returns without calling
\* ExportImport.importRules: without a file it calls nothing, after a declined
\* confirmation it has only read the rule count and shown the dialog, so it
\* issues no remove_all and no save.
C34_DeclineCallsNothing ==
    \A h \in NotStarted :
        /\ handlers[h].at = "done"
        /\ \A k \in 1..Len(handlers[h].calls) :
               handlers[h].calls[k] # "importRules"
        /\ ~handlers[h].hasFile => handlers[h].calls = <<>>
        /\ handlers[h].answer = "cancel"
             => /\ handlers[h].mode = "replace"
                /\ handlers[h].calls = <<"getCurrentRulesCount", "confirm">>

\* one click without a file and one declined replace confirmation
C34_Witness ==
    /\ \E h \in NotStarted : ~handlers[h].hasFile
    /\ \E h \in NotStarted : handlers[h].answer = "cancel"
    /\ InFlight = 0

\* the records of the document the export built
Exported == download.data.rules.items

\* C35: the exported document holds exactly one record per key the storage
\* returned, its id the key and its fields those stored under the key, and
\* formatVersion "1.0"; the export of an empty store is a document whose rules
\* is the empty array.
C35_ExportOnePerKey ==
    pc \in {"downloading", "exported"}
        => /\ download.data.top = "object"
           /\ download.data.formatVersion = Version10
           /\ download.data.rules.kind = "array"
           /\ Len(Exported) = Cardinality(DOMAIN exportedFrom)
           /\ {Exported[i].id.s : i \in 1..Len(Exported)} = DOMAIN exportedFrom
           /\ \A i \in 1..Len(Exported) :
                  /\ Exported[i].id.t = "str"
                  /\ Fields(Exported[i]) = exportedFrom[Exported[i].id.s]
           /\ exportedFrom = EmptyStore => Exported = <<>>

\* the export of an empty store has resolved with an empty rules array
C35_Witness ==
    /\ pc = "exported"
    /\ exportedFrom = EmptyStore
    /\ Persisted = EmptyStore
    /\ download.text = "json"
    /\ download.data.rules = RulesArray(<<>>)

\* a replace import that has resolved with every save reported as successful
ReplaceAllSaved ==
    /\ pc = "resolved"
    /\ mode = "replace"
    /\ Len(saved) = Len(Rules)
    /\ AllSaved

\* C36 as stated: after a replace import in which every save succeeds, the
\* number of rules in the store equals the returned importedCount, which is
\* the number of records of the document, including when several records
\* carry the same identifier.
C36_AsStated ==
    ReplaceAllSaved
        => /\ result.importedCount = Len(Rules)
           /\ Cardinality(DOMAIN Persisted) = result.importedCount

\* the quota gate of the call has decided: it rejected, or the call went on
\* to the commit phase
QuotaRejected == pc = "rejected" /\ result.gate = "quota"
ReplaceDecided ==
    mode = "replace" /\ (QuotaRejected \/ pc \in {"delay", "saving", "resolved"})
MergeDecided ==
    mode = "merge" /\ (QuotaRejected \/ pc \in {"saving", "resolved"})

\* C37: the replace gate rejects a valid document exactly when the size of
\* its rules exceeds QUOTA_LIMIT; merged into an empty store, the merge gate
\* rejects it exactly when that size plus 2, the size of the empty store,
\* exceeds QUOTA_LIMIT: the two gates decide alike except on the sizes
\* QUOTA_LIMIT - 1 and QUOTA_LIMIT, which replace admits and merge rejects.
C37_EmptyStoreQuota ==
    /\ ItemsSize(EmptyStore) = 2
    /\ ReplaceDecided => (QuotaRejected <=> RulesSize(Rules) > QUOTA_LIMIT)
    /\ (MergeDecided /\ storeAtCall = EmptyStore)
         => /\ QuotaRejected <=> RulesSize(Rules) + 2 > QUOTA_LIMIT
            /\ RulesSize(Rules) \notin {QUOTA_LIMIT - 1, QUOTA_LIMIT}
                 => (QuotaRejected <=> RulesSize(Rules) > QUOTA_LIMIT)
            /\ RulesSize(Rules) \in {QUOTA_LIMIT - 1, QUOTA_LIMIT}
                 => QuotaRejected

\* a document of QUOTA_LIMIT - 1 characters, which the replace gate admits,
\* rejected by the merge gate on an empty store
C37_Witness ==
    /\ MergeDecided
    /\ storeAtCall = EmptyStore
    /\ RulesSize(Rules) = QUOTA_LIMIT - 1
    /\ QuotaRejected
    /\ result.sizes = <<QUOTA_LIMIT + 1, QUOTA_LIMIT, 2, QUOTA_LIMIT - 1>>

\* C37 as stated: on an empty store the merge gate decides as the replace
\* gate does, the empty store contributing zero.
C37_AsStated ==
    (MergeDecided /\ storeAtCall = EmptyStore)
        => (QuotaRejected <=> RulesSize(Rules) > QUOTA_LIMIT)

\* an importRules call whose promise is pending, and one whose promise has
\* settled
Pending == pc \in {"reading", "delay", "getall", "saving"}
Settled == pc \in {"resolved", "rejected"}

\* C38: provided the file reader, the timer and every storage callback
\* eventually fire, a pending importRules call is eventually resolved or
\* rejected, whatever its mode and its path; a settled call is resolved or
\* rejected, never both, a pending one is neither; and the outcome of a
\* settled call does not change until the next call starts.
C38_SettlesOnce ==
    /\ Pending ~> Settled
    /\ [](/\ pc = "resolved" <=> result.kind = "resolved"
          /\ pc = "rejected" <=> result.kind = "rejected"
          /\ Pending => result = NoResult)
    /\ [][Settled => \/ pc' = pc /\ result' = result
                     \/ pc' \in {"reading", "exporting"} /\ result' = NoResult]_vars

\* a merge import of two records that went through the read of the store and
\* both saves, the first of which failed, and then resolved
C38_Witness ==
    /\ pc = "resolved"
    /\ result.kind = "resolved"
    /\ mode = "merge"
    /\ saved = <<FALSE, TRUE>>
    /\ result.importedCount = 1
    /\ Len(result.errors) = 1

\* the call was rejected because Config.get_all reported an error
GetAllFailed == pc = "rejected" /\ result.gate = "getall"

\* C39: a merge import whose read of the existing rules reports an error is
\* rejected with the rejection that names that error; the read is the only
\* request the call has issued, no record was given an identifier or saved,
\* and the store is what it was when the call was made.
C39_GetAllError ==
    GetAllFailed
        => /\ mode = "merge"
           /\ result = Rejected("getall", <<>>, <<>>)
           /\ issued = <<Op("get_all", "")>>
           /\ assigned = <<>>
           /\ saved = <<>>
           /\ importedCount = 0
           /\ ~clearPending
           /\ store = storeAtCall

\* a merge of a valid document of two records into a store of one rule,
\* rejected because the read of the store failed
C39_Witness ==
    /\ GetAllFailed
    /\ validateExportFile(file.data).valid
    /\ Len(Rules) = 2
    /\ Cardinality(DOMAIN storeAtCall) = 1
    /\ store = storeAtCall

====
